---- MODULE Spec2Model ----
(***************************************************************************)
(* Product recommendation engine of the Tekado backend                     *)
(* (backend/routes/products.js, backend/services/pineconeSync.js).         *)
(*                                                                         *)
(* Strings are sequences of one-character strings, so that the             *)
(* conversions between numeric identifiers and identifier strings          *)
(* (String(id), Number(str)) are computed and not assumed.  The empty      *)
(* sequence stands for null / undefined / '' (all falsy in the source).    *)
(***************************************************************************)
EXTENDS Integers, Sequences, FiniteSets, TLC

\* ------------------------------------------------------------------------
\* Program constants
\* ------------------------------------------------------------------------
FALLBACK_POOL_LIMIT == 150
THIN_POOL == 5
SIMILAR_LIMIT == 5
GROUP_LIMIT == 10
EXTRA_NEIGHBOURS == 3

\* ------------------------------------------------------------------------
\* Bounds of the model
\* ------------------------------------------------------------------------
MaxMatches == 2

\* ------------------------------------------------------------------------
\* JavaScript values: identifiers travel as numbers or as strings
\* ------------------------------------------------------------------------
Digits == <<"0", "1", "2", "3", "4", "5", "6", "7", "8", "9">>

IsDigit(c) == \E i \in 1..10 : Digits[i] = c

DigitVal(c) == (CHOOSE i \in 1..10 : Digits[i] = c) - 1

RECURSIVE NumToStr(_)
NumToStr(n) ==
  IF n < 10 THEN <<Digits[n + 1]>>
  ELSE Append(NumToStr(n \div 10), Digits[(n % 10) + 1])

NoStr == <<>>

JsNull == [t |-> "null", n |-> 0, s |-> NoStr]
JsNum(n) == [t |-> "num", n |-> n, s |-> NoStr]
JsStr(s) == [t |-> "str", n |-> 0, s |-> s]
JsNaN == [t |-> "nan", n |-> 0, s |-> NoStr]

\* JS truthiness of a value: null, NaN, 0 and '' are falsy
Truthy(v) ==
  CASE v.t = "null" -> FALSE
    [] v.t = "nan" -> FALSE
    [] v.t = "num" -> v.n # 0
    [] OTHER -> v.s # NoStr

\* a || b
JsOr(a, b) == IF Truthy(a) THEN a ELSE b

\* String(value) / value.toString() as a character sequence
JsToString(v) ==
  CASE v.t = "num" -> NumToStr(v.n)
    [] v.t = "str" -> v.s
    [] v.t = "nan" -> <<"N", "a", "N">>
    [] OTHER -> <<"n", "u", "l", "l">>

toIdString(v) ==
  IF v.t = "null" THEN NoStr ELSE JsToString(v)

RECURSIVE DigitsValue(_)
DigitsValue(s) ==
  IF s = <<>> THEN 0
  ELSE 10 * DigitsValue(SubSeq(s, 1, Len(s) - 1)) + DigitVal(s[Len(s)])

\* Number(value): decimal digit strings parse to their value, '' and null to 0,
\* any string with another character to NaN
JsNumber(v) ==
  CASE v.t = "num" -> v
    [] v.t = "nan" -> JsNaN
    [] v.t = "null" -> JsNum(0)
    [] OTHER -> IF \A i \in 1..Len(v.s) : IsDigit(v.s[i])
                THEN JsNum(DigitsValue(v.s))
                ELSE JsNaN

IsFiniteNum(v) == v.t = "num"

\* the elements at the positions in keep, in their order
Pick(seq, keep) ==
  [k \in 1..Cardinality(keep) |->
     seq[CHOOSE i \in keep : Cardinality({j \in keep : j <= i}) = k]]

\* mutant: repeated elements are kept
Dedup_KeepAll(seq) == seq

\* order-preserving removal of repeated elements (new Set(list) iteration order)
Dedup(seq) ==
  Pick(seq, {i \in 1..Len(seq) : \A j \in 1..(i - 1) : seq[j] # seq[i]})

Range(seq) == {seq[i] : i \in 1..Len(seq)}

Take(seq, n) == SubSeq(seq, 1, IF Len(seq) < n THEN Len(seq) ELSE n)

\* Array.from(ids).map(Number).filter(Number.isFinite) as the set handed to notIn / in
toNumericIds(ids) ==
  {JsNumber(ids[i]).n : i \in {j \in 1..Len(ids) : IsFiniteNum(JsNumber(ids[j]))}}

\* ------------------------------------------------------------------------
\* Text similarity and the composite score (exact rationals [num, den])
\* ------------------------------------------------------------------------
UpperChars == <<"A", "B", "C", "D", "E", "F", "G", "H", "I", "J", "K", "L", "M",
                "N", "O", "P", "Q", "R", "S", "T", "U", "V", "W", "X", "Y", "Z">>
LowerChars == <<"a", "b", "c", "d", "e", "f", "g", "h", "i", "j", "k", "l", "m",
                "n", "o", "p", "q", "r", "s", "t", "u", "v", "w", "x", "y", "z">>

toLowerCase(c) ==
  IF \E i \in 1..26 : UpperChars[i] = c
  THEN LowerChars[CHOOSE i \in 1..26 : UpperChars[i] = c]
  ELSE c

IsAlnum(c) == IsDigit(c) \/ \E i \in 1..26 : LowerChars[i] = c

RECURSIVE TokScan(_, _, _, _)
TokScan(text, i, cur, acc) ==
  IF i > Len(text)
  THEN IF cur = <<>> THEN acc ELSE Append(acc, cur)
  ELSE LET c == toLowerCase(text[i])
       IN IF IsAlnum(c)
          THEN TokScan(text, i + 1, Append(cur, c), acc)
          ELSE TokScan(text, i + 1, <<>>, IF cur = <<>> THEN acc ELSE Append(acc, cur))

\* (text || '').toLowerCase().split(/[^a-z0-9]+/).filter(Boolean)
tokenize(text) == TokScan(text, 1, <<>>, <<>>)

\* mutant: the intersection is divided by the sum of the two set sizes
jaccardSimilarity_OverSum(aTokens, bTokens) ==
  LET ratio(intersection, unionSize) ==
        IF unionSize = 0 THEN [num |-> 0, den |-> 1]
        ELSE [num |-> intersection, den |-> unionSize]
  IN IF aTokens = <<>> \/ bTokens = <<>> THEN [num |-> 0, den |-> 1]
     ELSE ratio(Cardinality(Range(aTokens) \cap Range(bTokens)),
                Cardinality(Range(aTokens)) + Cardinality(Range(bTokens)))

jaccardSimilarity(aTokens, bTokens) ==
  LET ratio(intersection, unionSize) ==
        IF unionSize = 0 THEN [num |-> 0, den |-> 1]
        ELSE [num |-> intersection, den |-> unionSize]
  IN IF aTokens = <<>> \/ bTokens = <<>> THEN [num |-> 0, den |-> 1]
     ELSE ratio(Cardinality(Range(aTokens) \cap Range(bTokens)),
                Cardinality(Range(aTokens) \cup Range(bTokens)))

Max2(a, b) == IF a > b THEN a ELSE b
Min2(a, b) == IF a < b THEN a ELSE b
Abs(a) == IF a < 0 THEN 0 - a ELSE a

\* mutant: the difference is measured against the base price
priceAffinity_OverBase(base, candidate) ==
  LET affinity(diff, maxPrice) == [num |-> maxPrice - Min2(diff, maxPrice), den |-> maxPrice]
  IN IF base.price.t # "num" \/ candidate.price.t # "num" THEN [num |-> 0, den |-> 1]
     ELSE affinity(Abs(base.price.n - candidate.price.n), Max2(base.price.n, 1))

priceAffinity(base, candidate) ==
  LET affinity(diff, maxPrice) == [num |-> maxPrice - Min2(diff, maxPrice), den |-> maxPrice]
  IN IF base.price.t # "num" \/ candidate.price.t # "num" THEN [num |-> 0, den |-> 1]
     ELSE affinity(Abs(base.price.n - candidate.price.n),
                   Max2(Max2(base.price.n, candidate.price.n), 1))

\* 3 * category + 2 * brand + 3 * nameSim + descSim + 2 * price, as one fraction
computeSimilarityScore(base, candidate) ==
  LET score(exact, nameSim, descSim, price) ==
        [num |-> exact * nameSim.den * descSim.den * price.den
                 + 3 * nameSim.num * descSim.den * price.den
                 + descSim.num * nameSim.den * price.den
                 + 2 * price.num * nameSim.den * descSim.den,
         den |-> nameSim.den * descSim.den * price.den]
      cat == IF base.category # "" /\ candidate.category # "" /\ base.category = candidate.category
             THEN 3 ELSE 0
      brand == IF base.brand # "" /\ candidate.brand # "" /\ base.brand = candidate.brand
               THEN 2 ELSE 0
  IN score(cat + brand,
           jaccardSimilarity(tokenize(base.name), tokenize(candidate.name)),
           jaccardSimilarity(tokenize(base.description), tokenize(candidate.description)),
           priceAffinity(base, candidate))

\* a.score > b.score
ScoreGreater(a, b) == a.num * b.den > b.num * a.den

RECURSIVE Gcd(_, _)
Gcd(a, b) == IF b = 0 THEN a ELSE Gcd(b, a % b)

\* the number num / den (den > 0) in lowest terms, so that equal numbers are
\* equal records
Ratio(num, den) ==
  LET reduced(g) == [num |-> num \div g, den |-> den \div g]
  IN reduced(Gcd(Abs(num), den))

\* mutant: elements that compare equal are placed in reverse order
StableSort_Reversing(seq, before) ==
  LET n == Len(seq)
      pos == [i \in 1..n |->
                1 + Cardinality({j \in 1..n :
                      before[j][i] \/ (~before[i][j] /\ j > i)})]
  IN [k \in 1..n |-> seq[CHOOSE i \in 1..n : pos[i] = k]]

\* a stable sort: before[j][i] says that element j is ordered before element i;
\* position of each element = 1 + number of elements placed ahead of it
StableSort(seq, before) ==
  LET n == Len(seq)
      pos == [i \in 1..n |->
                1 + Cardinality({j \in 1..n :
                      before[j][i] \/ (~before[i][j] /\ j < i)})]
  IN [k \in 1..n |-> seq[CHOOSE i \in 1..n : pos[i] = k]]

\* mutant: the comparator is a.score - b.score, ascending
SortScored_Ascending(seq) ==
  StableSort(seq, [j \in 1..Len(seq) |-> [i \in 1..Len(seq) |->
                     ScoreGreater(seq[i].score, seq[j].score)]])

\* Array.prototype.sort((a, b) => b.score - a.score): stable, descending
SortScored(seq) ==
  StableSort(seq, [j \in 1..Len(seq) |-> [i \in 1..Len(seq) |->
                     ScoreGreater(seq[j].score, seq[i].score)]])

\* ------------------------------------------------------------------------
\* Catalog store (prisma.product): a sequence of rows in store order
\* ------------------------------------------------------------------------
normalizeProduct(product) ==
  [id |-> product.id, name |-> product.name, description |-> product.description,
   price |-> JsNumber(product.price), category |-> product.category,
   brand |-> product.brand, rating |-> product.rating,
   numReviews |-> product.numReviews, createdAt |-> product.createdAt]

NoFilter == [kind |-> "none", vals |-> {}]
CategoryIs(c) == [kind |-> "eq", vals |-> {c}]
CategoryIn(cs) == [kind |-> "in", vals |-> cs]

\* truthiness of filter.category
HasCategory(filter) ==
  filter.kind = "in" \/ (filter.kind = "eq" /\ filter.vals # {""})

buildWhereClause(excludeIds, filter) ==
  [notIn |-> toNumericIds(excludeIds),
   category |-> IF HasCategory(filter) THEN filter ELSE NoFilter]

WhereMatches(where, row) ==
  /\ row.id \notin where.notIn
  /\ where.category.kind = "none" \/ row.category \in where.category.vals

\* rating desc, numReviews desc, createdAt desc
RankBefore(a, b) ==
  \/ ScoreGreater(a.rating, b.rating)
  \/ a.rating = b.rating /\ a.numReviews > b.numReviews
  \/ a.rating = b.rating /\ a.numReviews = b.numReviews /\ a.createdAt > b.createdAt

RANK_SORT(rows) ==
  StableSort(rows, [j \in 1..Len(rows) |-> [i \in 1..Len(rows) |->
                      RankBefore(rows[j], rows[i])]])

\* prisma.product.findMany({ where, orderBy, take })
findMany(rows, where, ranked, take) ==
  Take(IF ranked THEN RANK_SORT(SelectSeq(rows, LAMBDA r : WhereMatches(where, r)))
       ELSE SelectSeq(rows, LAMBDA r : WhereMatches(where, r)), take)

\* prisma.product.findMany({ where: { id: { in: ids } } })
findManyByIds(rows, ids) == SelectSeq(rows, LAMBDA r : r.id \in ids)

\* prisma.product.findUnique({ where: { id } }) as a list of zero or one row
findUnique(rows, id) == SelectSeq(rows, LAMBDA r : r.id = id)

IdStr(row) == JsStr(NumToStr(row.id))

IdStrs(rows) == [i \in 1..Len(rows) |-> IdStr(rows[i])]

\* ------------------------------------------------------------------------
\* Candidate pool and backstop; each result carries the number of store calls
\* ------------------------------------------------------------------------
\* mutant: the supplementary query excludes the fetched rows only
buildCandidatePool_ForgetExclusion(rows, excludeIds, filter) ==
  LET supplemented(primary) ==
        IF ~HasCategory(filter) \/ Len(primary) >= THIN_POOL
        THEN [list |-> primary, calls |-> 1]
        ELSE [list |-> primary \o findMany(rows, buildWhereClause(IdStrs(primary), NoFilter),
                                          FALSE, FALLBACK_POOL_LIMIT),
              calls |-> 2]
  IN supplemented(findMany(rows, buildWhereClause(excludeIds, filter), FALSE, FALLBACK_POOL_LIMIT))

\* mutant: a filtered result is supplemented whatever its length
buildCandidatePool_NoThreshold(rows, excludeIds, filter) ==
  LET supplemented(primary) ==
        IF ~HasCategory(filter)
        THEN [list |-> primary, calls |-> 1]
        ELSE [list |-> primary \o findMany(rows,
                         buildWhereClause(Dedup(excludeIds \o IdStrs(primary)), NoFilter),
                         FALSE, FALLBACK_POOL_LIMIT),
              calls |-> 2]
  IN supplemented(findMany(rows, buildWhereClause(excludeIds, filter), FALSE, FALLBACK_POOL_LIMIT))

\* mutant: a thin filtered result is not supplemented
buildCandidatePool_NoSupplement(rows, excludeIds, filter) ==
  [list |-> findMany(rows, buildWhereClause(excludeIds, filter), FALSE, FALLBACK_POOL_LIMIT),
   calls |-> 1]

buildCandidatePool(rows, excludeIds, filter) ==
  LET \* Map.set keeps the position of the first insertion and the last value
      merged(all, keys) ==
        [k \in 1..Len(keys) |->
           all[CHOOSE i \in 1..Len(all) :
                 /\ IdStr(all[i]) = keys[k]
                 /\ \A j \in (i + 1)..Len(all) : IdStr(all[j]) # keys[k]]]
      merge(all) == merged(all, Dedup(IdStrs(all)))
      supplemented(primary) ==
        IF ~HasCategory(filter) \/ Len(primary) >= THIN_POOL
        THEN [list |-> primary, calls |-> 1]
        ELSE [list |-> merge(primary \o findMany(rows,
                               buildWhereClause(Dedup(excludeIds \o IdStrs(primary)), NoFilter),
                               FALSE, FALLBACK_POOL_LIMIT)),
              calls |-> 2]
  IN supplemented(findMany(rows, buildWhereClause(excludeIds, filter), FALSE, FALLBACK_POOL_LIMIT))

\* mutant: the query is not repeated without the exclusion
fetchBackupProducts_NoRetry(rows, excludeIds, limit) ==
  [list |-> findMany(rows, buildWhereClause(excludeIds, NoFilter), TRUE, limit),
   calls |-> 1, unfiltered |-> FALSE]

fetchBackupProducts(rows, excludeIds, limit) ==
  LET retried(candidates) ==
        IF candidates # <<>>
        THEN [list |-> candidates, calls |-> 1, unfiltered |-> FALSE]
        ELSE [list |-> findMany(rows, buildWhereClause(<<>>, NoFilter), TRUE, limit),
              calls |-> 2, unfiltered |-> TRUE]
  IN retried(findMany(rows, buildWhereClause(excludeIds, NoFilter), TRUE, limit))

\* ------------------------------------------------------------------------
\* Local-scoring fallback
\* ------------------------------------------------------------------------
\* mutant: the loop never stops at limit
RECURSIVE PickTop_NoBreak(_, _, _, _)
PickTop_NoBreak(scored, i, results, limit) ==
  IF i > Len(scored) THEN results
  ELSE LET candidate == scored[i].candidate
       IN IF \E k \in 1..Len(results) : IdStr(results[k]) = IdStr(candidate)
          THEN PickTop_NoBreak(scored, i + 1, results, limit)
          ELSE PickTop_NoBreak(scored, i + 1, Append(results, candidate), limit)

\* the loop over the sorted candidates: skip seen keys, push, stop at limit
RECURSIVE PickTop(_, _, _, _)
PickTop(scored, i, results, limit) ==
  IF i > Len(scored) THEN results
  ELSE LET candidate == scored[i].candidate
       IN IF \E k \in 1..Len(results) : IdStr(results[k]) = IdStr(candidate)
          THEN PickTop(scored, i + 1, results, limit)
          ELSE IF Len(results) + 1 >= limit
               THEN Append(results, candidate)
               ELSE PickTop(scored, i + 1, Append(results, candidate), limit)

Normalized(rows) == [i \in 1..Len(rows) |-> normalizeProduct(rows[i])]

\* the three-way ending shared by the empty-pool and the empty-result branches
BackstopOrSelf(rows, excludeIds, limit, products, callsBefore) ==
  LET ending(backups) ==
        IF backups.list # <<>>
        THEN [list |-> Normalized(backups.list), calls |-> callsBefore + backups.calls,
              tier |-> IF backups.unfiltered THEN "unfiltered" ELSE "backstop"]
        ELSE [list |-> Take(Normalized(products), limit),
              calls |-> callsBefore + backups.calls, tier |-> "self"]
  IN ending(fetchBackupProducts(rows, excludeIds, limit))

\* mutant: the product itself is not excluded
SimilarExcludeIds_None(product) == <<>>

\* new Set([String(product.id)])
SimilarExcludeIds(product) == <<IdStr(product)>>

\* mutant: no backstop and no last resort behind the scored pool
fallbackSimilarProducts_PoolOnly(rows, product, limit) ==
  LET scoredOnly(pool) ==
        [list |-> Normalized(Take(pool.list, limit)), calls |-> pool.calls, tier |-> "scored"]
  IN scoredOnly(buildCandidatePool(rows, SimilarExcludeIds(product),
                  IF product.category # "" THEN CategoryIs(product.category) ELSE NoFilter))

fallbackSimilarProducts(rows, product, limit) ==
  LET \* the single product stands in for the list the last resort slices
      lastResort(end) ==
        IF end.tier = "self" THEN [end EXCEPT !.list = <<normalizeProduct(product)>>] ELSE end
      backstop(excludeIds, calls) ==
        lastResort(BackstopOrSelf(rows, excludeIds, limit, <<product>>, calls))
      picked(results, excludeIds, calls) ==
        IF results # <<>>
        THEN [list |-> Normalized(results), calls |-> calls, tier |-> "scored"]
        ELSE backstop(excludeIds, calls)
      scoredPool(pool, excludeIds) ==
        IF pool.list = <<>>
        THEN backstop(excludeIds, pool.calls)
        ELSE picked(PickTop(SortScored([i \in 1..Len(pool.list) |->
                              [candidate |-> pool.list[i],
                               score |-> computeSimilarityScore(product, pool.list[i])]]),
                            1, <<>>, limit),
                    excludeIds, pool.calls)
      excluding(excludeIds) ==
        scoredPool(buildCandidatePool(rows, excludeIds,
                     IF product.category # "" THEN CategoryIs(product.category) ELSE NoFilter),
                   excludeIds)
  IN excluding(SimilarExcludeIds(product))

\* mutant: the score against the last input product replaces the best one
RECURSIVE BestScore_Last(_, _, _, _)
BestScore_Last(products, i, candidate, best) ==
  IF i > Len(products) THEN best
  ELSE BestScore_Last(products, i + 1, candidate,
                      computeSimilarityScore(products[i], candidate))

RECURSIVE BestScore(_, _, _, _)
BestScore(products, i, candidate, best) ==
  LET better(sc) == IF ScoreGreater(sc, best) THEN sc ELSE best
  IN IF i > Len(products) THEN best
     ELSE BestScore(products, i + 1, candidate,
                    better(computeSimilarityScore(products[i], candidate)))

\* mutant: only the first input product is excluded
GroupExcludeIds_FirstOnly(products) == <<IdStr(products[1])>>

\* new Set(products.map(p => String(p.id)))
GroupExcludeIds(products) == Dedup(IdStrs(products))

fallbackRecommendationsForGroup(rows, products, limit) ==
  LET picked(results, excludeIds, calls) ==
        IF results # <<>>
        THEN [list |-> Normalized(results), calls |-> calls, tier |-> "scored"]
        ELSE BackstopOrSelf(rows, excludeIds, limit, products, calls)
      scoredPool(pool, excludeIds) ==
        IF pool.list = <<>>
        THEN BackstopOrSelf(rows, excludeIds, limit, products, pool.calls)
        ELSE picked(PickTop(SortScored([i \in 1..Len(pool.list) |->
                              [candidate |-> pool.list[i],
                               score |-> BestScore(products, 1, pool.list[i],
                                                   [num |-> 0, den |-> 1])]]),
                            1, <<>>, limit),
                    excludeIds, pool.calls)
      filtered(categories) == IF categories # {} THEN CategoryIn(categories) ELSE NoFilter
      excluding(excludeIds) ==
        scoredPool(buildCandidatePool(rows, excludeIds,
                     filtered({products[i].category : i \in 1..Len(products)} \ {""})),
                   excludeIds)
  IN excluding(GroupExcludeIds(products))

\* ------------------------------------------------------------------------
\* Vector tier helpers
\* ------------------------------------------------------------------------
\* a match of the index: match.id, metadata.mongoId, metadata.id
Match(id, mongoId, metaId) == [id |-> id, mongoId |-> mongoId, metaId |-> metaId]

getVectorProductId(match) ==
  IF Truthy(match.mongoId) \/ Truthy(match.metaId)
  THEN JsOr(match.mongoId, match.metaId)
  ELSE JsOr(match.id, JsNull)

\* the loop over the matches: skip falsy and seen product ids, stop at limit
RECURSIVE OrderedIds(_, _, _, _, _)
OrderedIds(matches, i, seen, orderedIds, limit) ==
  IF i > Len(matches) THEN orderedIds
  ELSE LET productId == getVectorProductId(matches[i])
       IN IF ~Truthy(productId) \/ productId \in seen
          THEN OrderedIds(matches, i + 1, seen, orderedIds, limit)
          ELSE IF Len(orderedIds) + 1 >= limit
               THEN Append(orderedIds, productId)
               ELSE OrderedIds(matches, i + 1, seen \cup {productId},
                               Append(orderedIds, productId), limit)

\* mutant: the entries are returned in the order of the store's answer
loadNormalizedProductsByIds_StoreOrder(rows, ids) ==
  LET queried(uniqueIds, numericIds) ==
        IF uniqueIds = <<>> \/ numericIds = {}
        THEN [list |-> <<>>, calls |-> 0]
        ELSE [list |-> Normalized(SelectSeq(findManyByIds(rows, numericIds),
                         LAMBDA r : \E k \in 1..Len(uniqueIds) : uniqueIds[k] = NumToStr(r.id))),
              calls |-> 1]
      unique(uniqueIds) ==
        queried(uniqueIds, toNumericIds([i \in 1..Len(uniqueIds) |-> JsStr(uniqueIds[i])]))
  IN unique(SelectSeq(Dedup([i \in 1..Len(ids) |-> toIdString(ids[i])]),
                      LAMBDA s : s # NoStr))

loadNormalizedProductsByIds(rows, ids) ==
  LET docOf(docs, s) == docs[CHOOSE k \in 1..Len(docs) :
                               /\ NumToStr(docs[k].id) = s
                               /\ \A j \in (k + 1)..Len(docs) : NumToStr(docs[j].id) # s]
      ordered(docs, found) ==
        [list |-> [i \in 1..Len(found) |-> normalizeProduct(docOf(docs, found[i]))],
         calls |-> 1]
      loaded(docs, uniqueIds) ==
        ordered(docs, SelectSeq(uniqueIds,
                        LAMBDA s : \E k \in 1..Len(docs) : NumToStr(docs[k].id) = s))
      queried(uniqueIds, numericIds) ==
        IF uniqueIds = <<>> \/ numericIds = {}
        THEN [list |-> <<>>, calls |-> 0]
        ELSE loaded(findManyByIds(rows, numericIds), uniqueIds)
      unique(uniqueIds) ==
        queried(uniqueIds, toNumericIds([i \in 1..Len(uniqueIds) |-> JsStr(uniqueIds[i])]))
  IN unique(SelectSeq(Dedup([i \in 1..Len(ids) |-> toIdString(ids[i])]),
                      LAMBDA s : s # NoStr))

\* toIdString(product.pineconeId || product.id)
BaseId(product) == toIdString(JsOr(JsStr(product.pineconeId), JsNum(product.id)))

\* ------------------------------------------------------------------------
\* Catalogs the requests are served from
\* ------------------------------------------------------------------------
MaxCatalog == 13


\* pid: "none" (never synced), "own" (backfilled by a sync: String(id)),
\* "legacy" (an external identifier that is not the numeric id)
MkRow(id, category, pid) ==
  [id |-> id,
   name |-> (IF id % 2 = 1 THEN <<"P", "r", "o", " ">> ELSE <<"M", "a", "x", " ">>) \o NumToStr(id),
   description |-> IF id % 3 = 0 THEN NoStr ELSE <<"t", "o", "p", " ", "k", "i", "t">>,
   price |-> JsNum(10 + 5 * (id % 5)),
   category |-> category,
   brand |-> IF id % 4 = 0 THEN "" ELSE IF id % 2 = 1 THEN "X" ELSE "Y",
   rating |-> Ratio(id % 3, 1),
   numReviews |-> id % 2,
   createdAt |-> id,
   pineconeId |-> CASE pid = "none" -> NoStr
                    [] pid = "own" -> NumToStr(id)
                    [] OTHER -> <<"m">> \o NumToStr(id)]

\* nA rows of category A, then nB of category B, then nE without category
Catalog(nA, nB, nE, pid) ==
  [i \in 1..(nA + nB + nE) |->
     MkRow(i, IF i <= nA THEN "A" ELSE IF i <= nA + nB THEN "B" ELSE "", pid)]

\* the empty store, a single product with and without a category, three categories
SmallCatalogs ==
  {Catalog(0, 0, 0, "none"), Catalog(1, 0, 0, "none"), Catalog(0, 0, 1, "none"),
   Catalog(2, 1, 1, "none")}

SyncedCatalogs ==
  {Catalog(2, 1, 0, "own"), Catalog(2, 1, 0, "legacy"), Catalog(1, 0, 0, "legacy")}

WideCatalogs ==
  {Catalog(2, 3, 0, "none"), Catalog(7, 1, 0, "own"), Catalog(MaxCatalog - 1, 1, 0, "none")}

RequestCatalogs == SmallCatalogs \cup SyncedCatalogs \cup WideCatalogs

\* ------------------------------------------------------------------------
\* Outcomes of the external collaborators
\* ------------------------------------------------------------------------
StdMatch(s) == Match(JsStr(s), JsStr(s), JsNull)
BareMatch(s) == Match(JsStr(s), JsNull, JsNull)
NumMetaMatch(n) == Match(JsStr(<<"v">> \o NumToStr(n)), JsNull, JsNum(n))

\* single matches an index may answer for a catalog: the vector written by the
\* sync for the first row, records of the first two rows under their numeric id,
\* and a record that carries a numeric metadata id
MatchUniverse(rows) ==
  {StdMatch(BaseId(rows[k])) : k \in 1..Min2(Len(rows), 1)}
    \cup {StdMatch(NumToStr(k)) : k \in 1..2}
    \cup {NumMetaMatch(2)}

\* answers that name a non-canonical or a non-numeric identifier
OddMatches ==
  {<<BareMatch(<<"x">>)>>, <<BareMatch(<<"x">>), StdMatch(NumToStr(2))>>,
   <<BareMatch(<<"0", "2">>)>>, <<BareMatch(<<"0", "2">>), StdMatch(NumToStr(2))>>}

RECURSIVE SeqsUpTo(_, _)
SeqsUpTo(S, n) ==
  IF n = 0 THEN {<<>>}
  ELSE LET shorter == SeqsUpTo(S, n - 1)
       IN shorter \cup {Append(q, x) : q \in shorter, x \in S}

Reverse(seq) == [i \in 1..Len(seq) |-> seq[Len(seq) + 1 - i]]

\* ranked answers of topK neighbours: every row once, in both orders, and twice
LongMatches(rows, topK) ==
  LET all == [i \in 1..Len(rows) |-> StdMatch(BaseId(rows[i]))]
      own == [i \in 1..Len(rows) |-> StdMatch(NumToStr(rows[i].id))]
      twice == [i \in 1..(2 * Len(rows)) |-> own[(i + 1) \div 2]]
  IN {Take(all, topK), Take(Reverse(own), topK), Take(twice, topK)}

MatchLists(rows, topK) ==
  {m \in SeqsUpTo(MatchUniverse(rows), MaxMatches) : Len(m) <= topK}
    \cup {m \in OddMatches : Len(m) <= topK}
    \cup LongMatches(rows, topK)

\* queryById / queryByVector: throws, answers nothing usable, or answers matches
QueryOutcomes(rows, topK) ==
  {[kind |-> "throw", matches |-> <<>>], [kind |-> "none", matches |-> <<>>]}
    \cup {[kind |-> "ok", matches |-> m] : m \in MatchLists(rows, topK)}

\* the stored vector of the i-th base identifier (dimensions differ)
VecOf(i) == IF i % 2 = 1 THEN <<2>> ELSE <<4, 6>>

\* fetchVectors(baseIds): throws, or answers the vectors of a subset of the ids
FetchOutcomes(baseIds) ==
  {[kind |-> "throw", has |-> {}]}
    \cup {[kind |-> "ok", has |-> h] : h \in SUBSET (1..Len(baseIds))}

\* ------------------------------------------------------------------------
\* State
\* ------------------------------------------------------------------------
VARIABLES
  catalog,      \* rows of prisma.product in store order
  configured,   \* isPineconeConfigured()
  pc,           \* position of the request handler
  route,        \* "similar" | "group" | "none"
  docs,         \* prod / docs loaded by the handler (in-memory objects)
  baseIds,      \* baseId / baseIds
  result,       \* matches of the last usable index answer
  vectorMap,    \* base identifiers whose vector the last fetch answered
  centroid,     \* mean of the fetched vectors
  syncIdx,      \* position in missingIds of the group re-sync loop
  calls,        \* calls made by the request, per collaborator
  response,     \* [status, list, tier, body]: body is the text of an answer that is no list
  call,         \* a direct call of a store helper: function, arguments, result
  ratings,      \* req.body.rating of the request and the ratings stored so far
  order,        \* the row of prisma.order that is tracked, with its statusHistory rows
  handlers      \* requests in flight side by side: each one's position and locals

vars == <<catalog, configured, pc, route, docs, baseIds, result, vectorMap, centroid, syncIdx,
          calls, response, call, ratings,
          order, handlers>>

\* threw: index-side calls that threw; lastThrew: whether the latest one did;
\* storeThrew: whether a catalog-store call of the routes threw; updateThrew:
\* whether the backfill update of the synchronization threw
NoCalls == [queryById |-> 0, ensureSynced |-> 0, fetchVectors |-> 0,
            queryByVector |-> 0, store |-> 0,
            threw |-> 0, lastThrew |-> FALSE, storeThrew |-> FALSE,
            updateThrew |-> FALSE]

\* the text of res.json({ message })
JsonMessage(message) == "{\"message\":\"" \o message \o "\"}"

NoResponse == [status |-> 0, list |-> <<>>, tier |-> "none", body |-> ""]

\* an order row without status rows (stored before the status history existed);
\* byCheckout tells the rows POST /create-order stored
NoOrder == [statusIndex |-> 0, statusHistory |-> <<>>, byCheckout |-> FALSE]

\* no request body read, nothing stored yet
NoRatings == [body |-> JsNull, stored |-> <<>>]

NoCall == [fn |-> "none", excludeIds |-> <<>>, filter |-> NoFilter, limit |-> 0,
           out |-> <<>>, queries |-> 0]

handler == <<pc, route, docs, baseIds, result, vectorMap, centroid, syncIdx, calls, response>>

HandlerIdle ==
  /\ pc = "idle"
  /\ route = "none"
  /\ docs = <<>>
  /\ baseIds = <<>>
  /\ result = <<>>
  /\ vectorMap = {}
  /\ centroid = <<>>
  /\ syncIdx = 0
  /\ calls = NoCalls
  /\ response = NoResponse

Init ==
  /\ catalog \in RequestCatalogs
  /\ configured \in BOOLEAN
  /\ HandlerIdle
  /\ call = NoCall
  /\ ratings = NoRatings
  /\ order = NoOrder
  /\ handlers = <<>>

IndexCall(field, threw) ==
  [calls EXCEPT ![field] = @ + 1,
                !.threw = IF threw THEN @ + 1 ELSE @,
                !.lastThrew = threw]

StoreCalls(n, threw) ==
  [calls EXCEPT !.store = @ + n, !.storeThrew = threw]

\* res.status(status).json(list): the handler returns; the index answer that was
\* used is kept until the next request starts
Respond(status, list, tier, body) ==
  /\ response' = [status |-> status, list |-> list, tier |-> tier, body |-> body]
  /\ pc' = "done"
  /\ UNCHANGED result
  /\ vectorMap' = {}
  /\ centroid' = <<>>
  /\ syncIdx' = 0

\* ------------------------------------------------------------------------
\* ensureProductSyncedWithPinecone(productDoc)
\* ------------------------------------------------------------------------
SyncOutcomes ==
  IF configured THEN {"nopayload", "throw", "ok"} ELSE {"unconfigured"}

\* the in-memory document after the call; product and productDoc are the same
\* object, so the comparison of line 71 reads the identifier assigned at line 65
SyncedDoc(doc, out) ==
  IF out = "ok" THEN [doc EXCEPT !.pineconeId = BaseId(doc)] ELSE doc

\* mutant: the backfill runs for a product without stored identifier, whatever
\* the outcome of the upsert
UpdateAttempted_AnyOutcome(doc, out) ==
  doc.pineconeId # BaseId(doc)

\* line 71: the backfill runs when product.pineconeId differs from the
\* identifier just assigned
UpdateAttempted(doc, out) ==
  out = "ok" /\ SyncedDoc(doc, out).pineconeId # BaseId(doc)

\* the calls of one synchronization; a throw of prisma.update is caught at
\* lines 79-81 and the call still returns true
SyncCall(doc, out, updateOk) ==
  [IndexCall("ensureSynced", out = "throw") EXCEPT
     !.store = IF UpdateAttempted(doc, out) THEN @ + 1 ELSE @,
     !.updateThrew = @ \/ (UpdateAttempted(doc, out) /\ ~updateOk)]

\* the catalog after the call; updateOk is the outcome of prisma.update
SyncedCatalog(rows, doc, out, updateOk) ==
  IF UpdateAttempted(doc, out) /\ updateOk
  THEN [i \in 1..Len(rows) |->
          IF rows[i].id = doc.id THEN [rows[i] EXCEPT !.pineconeId = BaseId(doc)] ELSE rows[i]]
  ELSE rows

\* ------------------------------------------------------------------------
\* GET /:id/similar
\* ------------------------------------------------------------------------
Txt_x == <<"x">>

SimilarParams(rows) ==
  {NumToStr(1), NumToStr(Len(rows)), NumToStr(Len(rows) + 1), Txt_x}

\* lines 459-466: parse the id, look the product up
ReqSimilar(idParam, storeOk) ==
  /\ pc = "idle"
  /\ route' = "similar"
  /\ LET id == JsNumber(JsStr(idParam))
     IN IF id.t = "nan"
        THEN /\ Respond(400, <<>>, "none",
                        JsonMessage("Invalid product id"))
             /\ UNCHANGED <<docs, baseIds, calls>>
        ELSE IF ~storeOk
        THEN /\ Respond(500, <<>>, "none", JsonMessage("Server error"))
             /\ calls' = StoreCalls(1, TRUE)
             /\ UNCHANGED <<docs, baseIds>>
        ELSE LET found == findUnique(catalog, id.n)
             IN IF found = <<>>
                THEN /\ Respond(404, <<>>, "none", JsonMessage("Product not found"))
                     /\ calls' = StoreCalls(1, FALSE)
                     /\ UNCHANGED <<docs, baseIds>>
                ELSE /\ docs' = found
                     /\ baseIds' = <<BaseId(found[1])>>
                     /\ calls' = StoreCalls(1, FALSE)
                     /\ pc' = "sim_query1"
                     /\ UNCHANGED <<result, vectorMap, centroid, syncIdx, response>>
  /\ UNCHANGED <<call, order, handlers, ratings, catalog, configured>>

\* mutant: only a throw of the first queryById leads to the re-sync
SimQuery1_ThrowOnly(out) ==
  /\ pc = "sim_query1"
  /\ calls' = IndexCall("queryById", out.kind = "throw")
  /\ IF out.kind # "throw"
     THEN result' = out.matches /\ pc' = "sim_load"
     ELSE result' = <<>> /\ pc' = "sim_sync"
  /\ UNCHANGED <<call, order, handlers, ratings, catalog, configured, route, docs, baseIds, vectorMap, centroid, syncIdx, response>>

\* lines 245-251: the first queryById
SimQuery1(out) ==
  /\ pc = "sim_query1"
  /\ calls' = IndexCall("queryById", out.kind = "throw")
  /\ IF out.kind = "ok" /\ out.matches # <<>>
     THEN result' = out.matches /\ pc' = "sim_load"
     ELSE result' = <<>> /\ pc' = "sim_sync"
  /\ UNCHANGED <<call, order, handlers, ratings, catalog, configured, route, docs, baseIds, vectorMap, centroid, syncIdx, response>>

\* lines 252-253 and 255-258: the re-sync before the retry
SimSync(out, updateOk) ==
  /\ pc = "sim_sync"
  /\ out \in SyncOutcomes
  /\ calls' = SyncCall(docs[1], out, updateOk)
  /\ docs' = <<SyncedDoc(docs[1], out)>>
  /\ catalog' = SyncedCatalog(catalog, docs[1], out, updateOk)
  /\ pc' = IF out = "throw" THEN "sim_fallback" ELSE "sim_query2"
  /\ UNCHANGED <<call, order, handlers, ratings, configured, route, baseIds, result, vectorMap, centroid, syncIdx, response>>

\* mutant: a failed retry goes back to the re-sync
SimQuery2_RetryLoop(out) ==
  /\ pc = "sim_query2"
  /\ calls' = IndexCall("queryById", out.kind = "throw")
  /\ IF out.kind = "throw"
     THEN result' = <<>> /\ pc' = "sim_sync"
     ELSE result' = out.matches /\ pc' = "sim_load"
  /\ UNCHANGED <<call, order, handlers, ratings, catalog, configured, route, docs, baseIds, vectorMap, centroid, syncIdx, response>>

\* lines 254-258: the retry of queryById
SimQuery2(out) ==
  /\ pc = "sim_query2"
  /\ calls' = IndexCall("queryById", out.kind = "throw")
  /\ IF out.kind = "throw"
     THEN result' = <<>> /\ pc' = "sim_fallback"
     ELSE result' = out.matches /\ pc' = "sim_load"
  /\ UNCHANGED <<call, order, handlers, ratings, catalog, configured, route, docs, baseIds, vectorMap, centroid, syncIdx, response>>

\* mutant: the load is awaited inside the try block, its failure is caught
SimLoad_Caught(storeOk) ==
  /\ pc = "sim_load"
  /\ LET orderedIds == OrderedIds(result, 1, {JsStr(baseIds[1])}, <<>>, SIMILAR_LIMIT)
         loaded == loadNormalizedProductsByIds(catalog, orderedIds)
     IN /\ calls' = StoreCalls(loaded.calls, loaded.calls > 0 /\ ~storeOk)
        /\ IF loaded.list # <<>> /\ storeOk
           THEN Respond(200, loaded.list, "vector", "")
           ELSE /\ pc' = "sim_fallback"
                /\ result' = <<>>
                /\ UNCHANGED <<vectorMap, centroid, syncIdx, response>>
  /\ UNCHANGED <<call, order, handlers, ratings, catalog, configured, route, docs, baseIds>>

\* lines 261-273 and 468-473: order the neighbours, load them, answer if any
SimLoad(storeOk) ==
  /\ pc = "sim_load"
  /\ LET orderedIds == OrderedIds(result, 1, {JsStr(baseIds[1])}, <<>>, SIMILAR_LIMIT)
         loaded == loadNormalizedProductsByIds(catalog, orderedIds)
     IN /\ calls' = StoreCalls(loaded.calls, loaded.calls > 0 /\ ~storeOk)
        /\ IF loaded.calls > 0 /\ ~storeOk
           THEN Respond(500, <<>>, "none", JsonMessage("Server error"))
           ELSE IF loaded.list # <<>>
           THEN Respond(200, loaded.list, "vector", "")
           ELSE /\ pc' = "sim_fallback"
                /\ result' = <<>>
                /\ UNCHANGED <<vectorMap, centroid, syncIdx, response>>
  /\ UNCHANGED <<call, order, handlers, ratings, catalog, configured, route, docs, baseIds>>

\* lines 469-473: the local fallback; failAt is the store call that throws (0: none)
SimFallback(failAt) ==
  /\ pc = "sim_fallback"
  /\ LET fb == fallbackSimilarProducts(catalog, docs[1], SIMILAR_LIMIT)
     IN IF failAt \in 1..fb.calls
        THEN /\ Respond(500, <<>>, "none", JsonMessage("Server error"))
             /\ calls' = StoreCalls(failAt, TRUE)
        ELSE /\ failAt = 0
             /\ Respond(200, fb.list, fb.tier, "")
             /\ calls' = StoreCalls(fb.calls, FALSE)
  /\ UNCHANGED <<call, order, handlers, ratings, catalog, configured, route, docs, baseIds>>

\* the response is sent; the next request starts from the same store
Finish ==
  /\ pc = "done"
  /\ pc' = "idle"
  /\ route' = "none"
  /\ docs' = <<>>
  /\ baseIds' = <<>>
  /\ calls' = NoCalls
  /\ response' = NoResponse
  /\ result' = <<>>
  /\ ratings' = [ratings EXCEPT !.body = JsNull]
  /\ UNCHANGED <<call, order, handlers, catalog, configured, vectorMap, centroid, syncIdx>>

\* ------------------------------------------------------------------------
\* POST /recommendations
\* ------------------------------------------------------------------------
\* req.body.ids: not an array, or a list of identifier strings
NotArray == [isArray |-> FALSE, ids |-> <<>>]
IdList(ids) == [isArray |-> TRUE, ids |-> ids]

GroupBodies(rows) ==
  LET one == NumToStr(1)
      two == NumToStr(2)
      last == NumToStr(Len(rows))
      gone == NumToStr(Len(rows) + 1)
  IN {NotArray, IdList(<<>>), IdList(<<Txt_x>>), IdList(<<gone>>), IdList(<<one>>),
      IdList(<<one, one>>), IdList(<<two, one>>), IdList(<<one, Txt_x>>),
      IdList(<<last, one>>)}

\* the input vectors available in a fetch answer, in baseIds order
Vectors(ids, vm) ==
  LET at == {i \in 1..Len(ids) : ids[i] \in vm}
  IN Pick([i \in 1..Len(ids) |-> VecOf(i)], at)

\* lines 325-330: component-wise mean over the dimension of the first vector;
\* a component read past the end of a shorter vector is undefined (NaN)
Centroid(vectors) ==
  [i \in 1..Len(vectors[1]) |->
     IF \E k \in 1..Len(vectors) : Len(vectors[k]) < i
     THEN [nan |-> TRUE, num |-> 0, den |-> 1]
     ELSE LET sum[k \in 0..Len(vectors)] == IF k = 0 THEN 0 ELSE sum[k - 1] + vectors[k][i]
          IN [nan |-> FALSE, num |-> sum[Len(vectors)], den |-> Len(vectors)]]

MissingIds(ids, vm) == SelectSeq(ids, LAMBDA id : id \notin vm)

\* productMap.get(id): the last product whose base identifier is id
ProductAt(ids, id) ==
  CHOOSE i \in 1..Len(ids) : ids[i] = id /\ \A j \in (i + 1)..Len(ids) : ids[j] # id

\* lines 321-330: with no vector the tier answers [], else the centroid is what
\* the rest of the function reads
AfterFetch(vm) ==
  /\ vectorMap' = {}
  /\ IF Vectors(baseIds, vm) = <<>>
     THEN pc' = "grp_fallback" /\ centroid' = <<>>
     ELSE pc' = "grp_query" /\ centroid' = Centroid(Vectors(baseIds, vm))

\* lines 515-525: validate the body, load the input products
ReqGroup(body, storeOk) ==
  /\ pc = "idle"
  /\ route' = "group"
  /\ IF ~body.isArray \/ body.ids = <<>>
     THEN /\ Respond(400, <<>>, "none",
                     JsonMessage("Request body must have a non-empty array of ids"))
          /\ UNCHANGED <<docs, baseIds, calls>>
     ELSE IF ~storeOk
     THEN /\ Respond(500, <<>>, "none", JsonMessage("Server error"))
          /\ calls' = StoreCalls(1, TRUE)
          /\ UNCHANGED <<docs, baseIds>>
     ELSE LET numericIds == toNumericIds([i \in 1..Len(body.ids) |-> JsStr(body.ids[i])])
              found == findManyByIds(catalog, numericIds)
          IN IF found = <<>>
             THEN /\ Respond(400, <<>>, "none",
                             JsonMessage("No products found for provided ids"))
                  /\ calls' = StoreCalls(1, FALSE)
                  /\ UNCHANGED <<docs, baseIds>>
             ELSE /\ docs' = found
                  /\ baseIds' = [i \in 1..Len(found) |-> BaseId(found[i])]
                  /\ calls' = StoreCalls(1, FALSE)
                  /\ pc' = "grp_fetch1"
                  /\ UNCHANGED <<result, vectorMap, centroid, syncIdx, response>>
  /\ UNCHANGED <<call, order, handlers, ratings, catalog, configured>>

FetchedIds(out) == IF out.kind = "throw" THEN {} ELSE {baseIds[i] : i \in out.has}

\* lines 289-302: the first fetchVectors
GrpFetch1(out) ==
  /\ pc = "grp_fetch1"
  /\ calls' = IndexCall("fetchVectors", out.kind = "throw")
  /\ IF MissingIds(baseIds, FetchedIds(out)) # <<>>
     THEN /\ vectorMap' = FetchedIds(out)
          /\ pc' = "grp_sync"
          /\ syncIdx' = 1
          /\ UNCHANGED centroid
     ELSE /\ AfterFetch(FetchedIds(out))
          /\ UNCHANGED syncIdx
  /\ UNCHANGED <<call, order, handlers, ratings, catalog, configured, route, docs, baseIds, result, response>>

\* mutant: a re-sync that throws ends the vector tier
GrpSync_StopOnThrow(out, updateOk) ==
  /\ pc = "grp_sync"
  /\ out \in SyncOutcomes
  /\ LET missingIds == MissingIds(baseIds, vectorMap)
         at == ProductAt(baseIds, missingIds[syncIdx])
     IN /\ calls' = SyncCall(docs[at], out, updateOk)
        /\ docs' = [docs EXCEPT ![at] = SyncedDoc(docs[at], out)]
        /\ catalog' = SyncedCatalog(catalog, docs[at], out, updateOk)
        /\ IF out = "throw"
           THEN syncIdx' = 0 /\ pc' = "grp_fallback"
           ELSE IF syncIdx < Len(missingIds)
           THEN syncIdx' = syncIdx + 1 /\ pc' = "grp_sync"
           ELSE syncIdx' = 0 /\ pc' = "grp_fetch2"
  /\ UNCHANGED <<call, order, handlers, ratings, configured, route, baseIds, result, vectorMap, centroid, response>>

\* lines 303-311: one turn of the re-sync loop over missingIds
GrpSync(out, updateOk) ==
  /\ pc = "grp_sync"
  /\ out \in SyncOutcomes
  /\ LET missingIds == MissingIds(baseIds, vectorMap)
         at == ProductAt(baseIds, missingIds[syncIdx])
     IN /\ calls' = SyncCall(docs[at], out, updateOk)
        /\ docs' = [docs EXCEPT ![at] = SyncedDoc(docs[at], out)]
        /\ catalog' = SyncedCatalog(catalog, docs[at], out, updateOk)
        /\ IF syncIdx < Len(missingIds)
           THEN syncIdx' = syncIdx + 1 /\ pc' = "grp_sync"
           ELSE syncIdx' = 0 /\ pc' = "grp_fetch2"
  /\ UNCHANGED <<call, order, handlers, ratings, configured, route, baseIds, result, vectorMap, centroid, response>>

\* lines 313-323: the batch fetch repeated once
GrpFetch2(out) ==
  /\ pc = "grp_fetch2"
  /\ calls' = IndexCall("fetchVectors", out.kind = "throw")
  /\ AfterFetch(FetchedIds(out))
  /\ UNCHANGED <<call, order, handlers, ratings, catalog, configured, route, docs, baseIds, result, syncIdx, response>>

\* mutant: the centroid query is not inside the try block
GrpQuery_Uncaught(out) ==
  /\ pc = "grp_query"
  /\ calls' = IndexCall("queryByVector", out.kind = "throw")
  /\ IF out.kind = "ok"
     THEN /\ result' = out.matches
          /\ pc' = "grp_load"
          /\ centroid' = <<>>
          /\ UNCHANGED <<vectorMap, syncIdx, response>>
     ELSE Respond(500, <<>>, "none", JsonMessage("Server error"))
  /\ UNCHANGED <<call, order, handlers, ratings, catalog, configured, route, docs, baseIds>>

\* line 332 and 345-348: the centroid query
GrpQuery(out) ==
  /\ pc = "grp_query"
  /\ calls' = IndexCall("queryByVector", out.kind = "throw")
  /\ IF out.kind = "ok"
     THEN result' = out.matches /\ pc' = "grp_load"
     ELSE result' = <<>> /\ pc' = "grp_fallback"
  /\ centroid' = <<>>
  /\ UNCHANGED <<call, order, handlers, ratings, catalog, configured, route, docs, baseIds, vectorMap, syncIdx, response>>

\* mutant: a vector list shorter than the limit is topped up by the fallback
GrpLoad_TopUp(storeOk) ==
  /\ pc = "grp_load"
  /\ LET exclude == {JsStr(baseIds[i]) : i \in 1..Len(baseIds)}
         orderedIds == OrderedIds(result, 1, exclude, <<>>, GROUP_LIMIT)
         loaded == loadNormalizedProductsByIds(catalog, orderedIds)
     IN /\ calls' = StoreCalls(loaded.calls, loaded.calls > 0 /\ ~storeOk)
        /\ IF loaded.calls > 0 /\ ~storeOk
           THEN Respond(500, <<>>, "none", JsonMessage("Server error"))
           ELSE IF Len(loaded.list) >= GROUP_LIMIT
           THEN Respond(200, loaded.list, "vector", "")
           ELSE /\ pc' = "grp_fallback"
                /\ result' = <<>>
                /\ UNCHANGED <<vectorMap, centroid, syncIdx, response>>
  /\ UNCHANGED <<call, order, handlers, ratings, catalog, configured, route, docs, baseIds>>

\* lines 333-344 and 527-532
GrpLoad(storeOk) ==
  /\ pc = "grp_load"
  /\ LET exclude == {JsStr(baseIds[i]) : i \in 1..Len(baseIds)}
         orderedIds == OrderedIds(result, 1, exclude, <<>>, GROUP_LIMIT)
         loaded == loadNormalizedProductsByIds(catalog, orderedIds)
     IN /\ calls' = StoreCalls(loaded.calls, loaded.calls > 0 /\ ~storeOk)
        /\ IF loaded.calls > 0 /\ ~storeOk
           THEN Respond(500, <<>>, "none", JsonMessage("Server error"))
           ELSE IF loaded.list # <<>>
           THEN Respond(200, loaded.list, "vector", "")
           ELSE /\ pc' = "grp_fallback"
                /\ result' = <<>>
                /\ UNCHANGED <<vectorMap, centroid, syncIdx, response>>
  /\ UNCHANGED <<call, order, handlers, ratings, catalog, configured, route, docs, baseIds>>

\* lines 528-532
GrpFallback(failAt) ==
  /\ pc = "grp_fallback"
  /\ LET fb == fallbackRecommendationsForGroup(catalog, docs, GROUP_LIMIT)
     IN IF failAt \in 1..fb.calls
        THEN /\ Respond(500, <<>>, "none", JsonMessage("Server error"))
             /\ calls' = StoreCalls(failAt, TRUE)
        ELSE /\ failAt = 0
             /\ Respond(200, fb.list, fb.tier, "")
             /\ calls' = StoreCalls(fb.calls, FALSE)
  /\ UNCHANGED <<call, order, handlers, ratings, catalog, configured, route, docs, baseIds>>

Next ==
  \/ \E idParam \in SimilarParams(catalog), storeOk \in BOOLEAN : ReqSimilar(idParam, storeOk)
  \/ \E out \in QueryOutcomes(catalog, SIMILAR_LIMIT + EXTRA_NEIGHBOURS) : SimQuery1(out)
  \/ \E out \in SyncOutcomes, updateOk \in BOOLEAN : SimSync(out, updateOk)
  \/ \E out \in QueryOutcomes(catalog, SIMILAR_LIMIT + EXTRA_NEIGHBOURS) : SimQuery2(out)
  \/ \E storeOk \in BOOLEAN : SimLoad(storeOk)
  \/ \E failAt \in 0..4 : SimFallback(failAt)
  \/ \E body \in GroupBodies(catalog), storeOk \in BOOLEAN : ReqGroup(body, storeOk)
  \/ \E out \in FetchOutcomes(baseIds) : GrpFetch1(out)
  \/ \E out \in SyncOutcomes, updateOk \in BOOLEAN : GrpSync(out, updateOk)
  \/ \E out \in FetchOutcomes(baseIds) : GrpFetch2(out)
  \/ \E out \in QueryOutcomes(catalog, GROUP_LIMIT + Len(baseIds) + EXTRA_NEIGHBOURS) : GrpQuery(out)
  \/ \E storeOk \in BOOLEAN : GrpLoad(storeOk)
  \/ \E failAt \in 0..4 : GrpFallback(failAt)
  \/ Finish

Spec == Init /\ [][Next]_vars

\* ------------------------------------------------------------------------
\* The pool builder and the backstop called directly, on stores that reach
\* the pool limit
\* ------------------------------------------------------------------------
ThinCatalogs ==
  {Catalog(nA, nB, 0, "none") : nA \in 0..(THIN_POOL + 1), nB \in 0..3}

FullCatalogs ==
  {Catalog(nA, FALLBACK_POOL_LIMIT + 1, 0, "none") : nA \in {0, 2}}

PoolCatalogs == ThinCatalogs \cup FullCatalogs

ExcludeSets(rows) ==
  {<<>>, <<JsStr(NumToStr(1))>>, <<JsStr(NumToStr(2)), JsStr(NumToStr(1))>>,
   <<JsStr(Txt_x)>>, <<JsStr(NumToStr(1)), JsStr(Txt_x), JsStr(<<"0", "2">>)>>,
   IdStrs(rows)}

Filters ==
  {NoFilter, CategoryIs("A"), CategoryIs("B"), CategoryIs("Z"), CategoryIs(""),
   CategoryIn({"A", "B"})}

BackupLimits == {1, SIMILAR_LIMIT, GROUP_LIMIT}

InitPool ==
  /\ catalog \in PoolCatalogs
  /\ configured = FALSE
  /\ HandlerIdle
  /\ call = NoCall
  /\ ratings = NoRatings
  /\ order = NoOrder
  /\ handlers = <<>>

PoolCall(excludeIds, filter) ==
  /\ call.fn = "none"
  /\ LET pool == buildCandidatePool(catalog, excludeIds, filter)
     IN call' = [fn |-> "buildCandidatePool", excludeIds |-> excludeIds, filter |-> filter,
                 limit |-> 0, out |-> pool.list, queries |-> pool.calls]
  /\ UNCHANGED <<catalog, configured, ratings, order, handlers, handler>>

BackupCall(excludeIds, limit) ==
  /\ call.fn = "none"
  /\ LET backups == fetchBackupProducts(catalog, excludeIds, limit)
     IN call' = [fn |-> "fetchBackupProducts", excludeIds |-> excludeIds, filter |-> NoFilter,
                 limit |-> limit, out |-> backups.list, queries |-> backups.calls]
  /\ UNCHANGED <<catalog, configured, ratings, order, handlers, handler>>

Return ==
  /\ call.fn # "none"
  /\ call' = NoCall
  /\ UNCHANGED <<catalog, configured, ratings, order, handlers, handler>>

NextPool ==
  \/ \E excludeIds \in ExcludeSets(catalog), filter \in Filters : PoolCall(excludeIds, filter)
  \/ \E excludeIds \in ExcludeSets(catalog), limit \in BackupLimits : BackupCall(excludeIds, limit)
  \/ Return

SpecPool == InitPool /\ [][NextPool]_vars

\* ------------------------------------------------------------------------
\* The scorer and the local ranking called directly
\* ------------------------------------------------------------------------
Txt_WidgetPro == <<"W", "i", "d", "g", "e", "t", " ", "P", "r", "o">>
Txt_WidgetMax == <<"W", "i", "d", "g", "e", "t", " ", "M", "a", "x">>
Txt_BestWidget == <<"b", "e", "s", "t", " ", "w", "i", "d", "g", "e", "t">>
Txt_GreatWidget == <<"g", "r", "e", "a", "t", " ", "w", "i", "d", "g", "e", "t">>

Entry(id, category, brand, price, name, description) ==
  [id |-> id, name |-> name, description |-> description, price |-> price,
   category |-> category, brand |-> brand, rating |-> Ratio(0, 1), numReviews |-> 0,
   createdAt |-> id, pineconeId |-> NoStr]

\* the three-entry catalog of the ranking scenario
WidgetCatalog ==
  <<Entry(1, "A", "X", JsNum(10), Txt_WidgetPro, Txt_BestWidget),
    Entry(2, "A", "X", JsNum(12), Txt_WidgetMax, Txt_GreatWidget),
    Entry(3, "B", "Y", JsNum(500), <<"G", "a", "d", "g", "e", "t">>, <<"u", "n", "r", "e", "l", "a", "t", "e", "d", " ", "d", "e", "v", "i", "c", "e">>)>>

\* the same entries stored in the opposite order
WidgetCatalogReversed == Reverse(WidgetCatalog)

LocalCatalogs == {WidgetCatalog, WidgetCatalogReversed}

\* a price column read as a Decimal object: typeof is not 'number', Number() is its value
DecimalPrice(s) == JsStr(s)

\* names and descriptions: with shared tokens, without tokens, empty
ScoreTexts ==
  {<<Txt_WidgetPro, Txt_BestWidget>>, <<Txt_WidgetMax, NoStr>>,
   <<<<"-", "-">>, <<"!">>>>, <<NoStr, Txt_GreatWidget>>}

ScorePrices == {JsNum(0), JsNum(10), JsNum(12), DecimalPrice(<<"1", "0">>)}

ScoreEntries ==
  {Entry(1, category, brand, price, text[1], text[2]) :
     category \in {"", "A", "B"}, brand \in {"", "X"},
     price \in ScorePrices, text \in ScoreTexts}

RankLimits == {1, 2, SIMILAR_LIMIT}

InitLocal ==
  /\ catalog \in LocalCatalogs
  /\ configured = FALSE
  /\ HandlerIdle
  /\ call = NoCall
  /\ ratings = NoRatings
  /\ order = NoOrder
  /\ handlers = <<>>

ScoreCall(base, candidate) ==
  /\ call.fn = "none"
  /\ call' = [fn |-> "computeSimilarityScore", base |-> base, candidate |-> candidate,
              out |-> computeSimilarityScore(base, candidate)]
  /\ UNCHANGED <<catalog, configured, ratings, order, handlers, handler>>

\* fallbackSimilarProducts(product, limit) for the product stored at position i
RankCall(i, limit) ==
  /\ call.fn = "none"
  /\ call' = [fn |-> "fallbackSimilarProducts", base |-> catalog[i], limit |-> limit,
              out |-> fallbackSimilarProducts(catalog, catalog[i], limit).list]
  /\ UNCHANGED <<catalog, configured, ratings, order, handlers, handler>>

NextLocal ==
  \/ \E base \in ScoreEntries, candidate \in ScoreEntries : ScoreCall(base, candidate)
  \/ \E i \in 1..Len(catalog), limit \in RankLimits : RankCall(i, limit)
  \/ Return

SpecLocal == InitLocal /\ [][NextLocal]_vars

\* ------------------------------------------------------------------------
\* GET /:id and PUT /:id/rating
\* ------------------------------------------------------------------------
MaxStored == 3

ProductCatalogs ==
  {Catalog(0, 0, 0, "none"), Catalog(1, 0, 0, "none"), Catalog(2, 1, 0, "none")}

\* req.body.rating: a number, a numeric string, or absent
RatingBodies == {JsNum(1), JsNum(5), JsStr(<<"5">>), JsNull}

InitProduct ==
  /\ catalog \in ProductCatalogs
  /\ configured = FALSE
  /\ HandlerIdle
  /\ call = NoCall
  /\ ratings = NoRatings
  /\ order = NoOrder
  /\ handlers = <<>>

\* lines 562-575; the product of a 200 answer is the one entry of the list
ReqProduct(idParam, storeOk) ==
  /\ pc = "idle"
  /\ route' = "product"
  /\ LET id == JsNumber(JsStr(idParam))
     IN IF id.t = "nan"
        THEN /\ Respond(400, <<>>, "none", JsonMessage("Invalid product id"))
             /\ UNCHANGED calls
        ELSE IF ~storeOk
        THEN /\ Respond(500, <<>>, "none", "Server error")
             /\ calls' = StoreCalls(1, TRUE)
        ELSE LET found == findUnique(catalog, id.n)
             IN /\ calls' = StoreCalls(1, FALSE)
                /\ IF found = <<>>
                   THEN Respond(404, <<>>, "none", "Product not found")
                   ELSE Respond(200, Normalized(found), "none", "")
  /\ UNCHANGED <<call, order, handlers, ratings, catalog, configured, docs, baseIds>>

\* lines 642-653: validate the id and the rating, read the product
ReqRating(idParam, rating, storeOk) ==
  /\ pc = "idle"
  /\ Len(ratings.stored) < MaxStored
  /\ route' = "rating"
  /\ ratings' = [ratings EXCEPT !.body = rating]
  /\ LET id == JsNumber(JsStr(idParam))
     IN IF id.t = "nan"
        THEN /\ Respond(400, <<>>, "none", JsonMessage("Invalid product id"))
             /\ UNCHANGED <<docs, calls>>
        ELSE IF rating.t # "num"
        THEN /\ Respond(400, <<>>, "none", JsonMessage("Invalid rating value"))
             /\ UNCHANGED <<docs, calls>>
        ELSE IF ~storeOk
        THEN /\ Respond(500, <<>>, "none", "Server error")
             /\ calls' = StoreCalls(1, TRUE)
             /\ UNCHANGED docs
        ELSE LET found == findUnique(catalog, id.n)
             IN IF found = <<>>
                THEN /\ Respond(404, <<>>, "none", "Product not found")
                     /\ calls' = StoreCalls(1, FALSE)
                     /\ UNCHANGED docs
                ELSE /\ docs' = found
                     /\ calls' = StoreCalls(1, FALSE)
                     /\ pc' = "rate_update"
                     /\ UNCHANGED <<result, vectorMap, centroid, syncIdx, response>>
  /\ UNCHANGED <<call, order, handlers, catalog, configured, baseIds>>

\* mutant: the new rating replaces the average
NewAverage_Latest(product, rating) ==
  [rating |-> Ratio(rating, 1), numReviews |-> product.numReviews + 1]

\* lines 656-658: newNumReviews and newAverageRating; a rating or count of 0 is
\* the only falsy value the NOT NULL columns can hold, and 0 || 0 is 0
NewAverage(product, rating) ==
  [rating |-> Ratio(product.rating.num * product.numReviews + rating * product.rating.den,
                    product.rating.den * (product.numReviews + 1)),
   numReviews |-> product.numReviews + 1]

\* lines 660-669: prisma.product.update, then the answer
RatingUpdate(storeOk) ==
  /\ pc = "rate_update"
  /\ LET data == NewAverage(docs[1], ratings.body.n)
         updated(row) == [row EXCEPT !.rating = data.rating, !.numReviews = data.numReviews]
     IN IF ~storeOk
        THEN /\ Respond(500, <<>>, "none", "Server error")
             /\ calls' = StoreCalls(1, TRUE)
             /\ UNCHANGED <<catalog, ratings>>
        ELSE /\ catalog' = [i \in 1..Len(catalog) |->
                              IF catalog[i].id = docs[1].id THEN updated(catalog[i])
                              ELSE catalog[i]]
             /\ ratings' = [ratings EXCEPT !.stored = Append(@, <<docs[1].id, ratings.body.n>>)]
             /\ calls' = StoreCalls(1, FALSE)
             /\ Respond(200, <<normalizeProduct(updated(docs[1]))>>, "none", "")
  /\ UNCHANGED <<call, order, handlers, configured, route, docs, baseIds>>

NextProduct ==
  \/ \E idParam \in SimilarParams(catalog), storeOk \in BOOLEAN : ReqProduct(idParam, storeOk)
  \/ \E idParam \in SimilarParams(catalog), rating \in RatingBodies, storeOk \in BOOLEAN :
       ReqRating(idParam, rating, storeOk)
  \/ \E storeOk \in BOOLEAN : RatingUpdate(storeOk)
  \/ Finish

SpecProduct == InitProduct /\ [][NextProduct]_vars

\* ------------------------------------------------------------------------
\* POST /api/orders/track: requests for one order, side by side
\* ------------------------------------------------------------------------
MaxTracks == 3

\* the codes of ORDER_STATUS_FLOW; ORDER_STATUS_FLOW[i] of the code is entry i + 1
ORDER_STATUS_FLOW ==
  <<"ORDER_PLACED", "PAYMENT_VERIFIED", "PICKING_ITEMS", "QUALITY_CHECK",
    "PACKED_FOR_SHIPMENT", "HANDOFF_TO_CARRIER", "IN_TRANSIT", "AT_LOCAL_DEPOT",
    "OUT_FOR_DELIVERY", "DELIVERED", "DELIVERY_CONFIRMED">>

\* the entries of ORDER_STATUS_FLOW[from..to], all entered at the same instant
FlowEntries(from, to, enteredAt) ==
  [k \in 1..(to - from + 1) |-> [code |-> ORDER_STATUS_FLOW[from + k], enteredAt |-> enteredAt]]

ensureInitialStatus(orderState, enteredAt) ==
  IF orderState.statusHistory = <<>>
  THEN [statusIndex |-> 0, statusHistory |-> FlowEntries(0, 0, enteredAt)]
  ELSE orderState

\* roll is Math.floor(Math.random() * (maxJump + 1)); the answer holds the new
\* state of the order object and the updates
advanceStatus(orderState, roll, enteredAt) ==
  LET last == Len(ORDER_STATUS_FLOW) - 1
      advance(targetIndex) ==
        [statusIndex |-> targetIndex,
         statusHistory |-> orderState.statusHistory
                             \o FlowEntries(orderState.statusIndex + 1, targetIndex, enteredAt),
         updates |-> FlowEntries(orderState.statusIndex + 1, targetIndex, enteredAt)]
  IN IF orderState.statusIndex >= last
     THEN [statusIndex |-> orderState.statusIndex,
           statusHistory |-> orderState.statusHistory, updates |-> <<>>]
     ELSE advance(Min2(orderState.statusIndex + Max2(1, roll), last))

\* statusHistory: { orderBy: { enteredAt: 'asc' } }; rows entered at the same
\* instant keep the order in which they were created
ByEnteredAt(history) ==
  StableSort(history, [j \in 1..Len(history) |-> [i \in 1..Len(history) |->
                         history[j].enteredAt < history[i].enteredAt]])

\* new Date(): later than every instant recorded so far
Now ==
  LET stored == {order.statusHistory[i].enteredAt : i \in 1..Len(order.statusHistory)}
      pending == UNION {{handlers[h].creates[i].enteredAt : i \in 1..Len(handlers[h].creates)} :
                          h \in 1..Len(handlers)}
      seen == stored \cup pending \cup {0}
  IN 1 + CHOOSE t \in seen : \A u \in seen : u <= t

\* the order as POST /create-order stores it, advanced one status at a time by
\* index earlier track requests
PlacedOrder(index) ==
  [statusIndex |-> index,
   statusHistory |-> [k \in 1..(index + 1) |-> [code |-> ORDER_STATUS_FLOW[k], enteredAt |-> k - 1]],
   byCheckout |-> TRUE]

\* a handler between two requests; served counts the requests it has started
IdleTrack(served) ==
  [pc |-> "idle", statusIndex |-> 0, creates |-> <<>>, status |-> 0,
   statusHistory |-> <<>>, served |-> served]

InitTrack ==
  /\ catalog = <<>>
  /\ configured = FALSE
  /\ HandlerIdle
  /\ call = NoCall
  /\ ratings = NoRatings
  /\ order \in {PlacedOrder(0), PlacedOrder(8), PlacedOrder(9), PlacedOrder(10), NoOrder}
  /\ handlers = [h \in 1..2 |-> IdleTrack(0)]

\* lines 87-119: the order is read, its next state and the rows to create are
\* computed; found: the order number and email name the order; shouldAdvance
\* and roll are the draws of Math.random() (FALSE and 0 when not drawn)
TrackRead(h, found, storeOk, shouldAdvance, roll) ==
  /\ handlers[h].pc = "idle"
  /\ handlers[1].served + handlers[2].served < MaxTracks
  /\ LET last == Len(ORDER_STATUS_FLOW) - 1
         served == handlers[h].served + 1
         read == [statusIndex |-> order.statusIndex,
                  statusHistory |-> ByEnteredAt(order.statusHistory)]
         initial == ensureInitialStatus(read, Now)
         created == IF read.statusHistory = <<>> THEN initial.statusHistory ELSE <<>>
         drawn == storeOk /\ found /\ initial.statusIndex < last
         next == IF drawn /\ shouldAdvance
                 THEN advanceStatus(initial, roll, Now)
                 ELSE [statusIndex |-> initial.statusIndex,
                       statusHistory |-> initial.statusHistory, updates |-> <<>>]
         creates == created \o next.updates
     IN /\ ~drawn => ~shouldAdvance
        /\ roll <= IF drawn /\ shouldAdvance THEN Min2(2, last - initial.statusIndex) ELSE 0
        /\ handlers' = [handlers EXCEPT ![h] =
             IF ~storeOk
             THEN [IdleTrack(served) EXCEPT !.pc = "done", !.status = 500]
             ELSE IF ~found
             THEN [IdleTrack(served) EXCEPT !.pc = "done", !.status = 404]
             ELSE [pc |-> IF creates = <<>> THEN "done" ELSE "update",
                   statusIndex |-> next.statusIndex,
                   creates |-> creates,
                   status |-> IF creates = <<>> THEN 200 ELSE 0,
                   statusHistory |-> ByEnteredAt(next.statusHistory),
                   served |-> served]]
  /\ UNCHANGED <<catalog, configured, ratings, order, call, handler>>

\* lines 120-150: prisma.order.update sets statusIndex and creates the rows
TrackUpdate(h, storeOk) ==
  /\ handlers[h].pc = "update"
  /\ IF storeOk
     THEN /\ order' = [order EXCEPT !.statusIndex = handlers[h].statusIndex,
                                    !.statusHistory = @ \o handlers[h].creates]
          /\ handlers' = [handlers EXCEPT ![h].pc = "done", ![h].status = 200,
                                          ![h].creates = <<>>]
     ELSE /\ handlers' = [handlers EXCEPT ![h] =
                            [IdleTrack(@.served) EXCEPT !.pc = "done", !.status = 500]]
          /\ UNCHANGED order
  /\ UNCHANGED <<catalog, configured, ratings, call, handler>>

\* the answer is sent; the next request may start
TrackDone(h) ==
  /\ handlers[h].pc = "done"
  /\ handlers' = [handlers EXCEPT ![h] = IdleTrack(@.served)]
  /\ UNCHANGED <<catalog, configured, ratings, order, call, handler>>

NextTrack ==
  \/ \E h \in 1..2, found \in BOOLEAN, storeOk \in BOOLEAN, shouldAdvance \in BOOLEAN, roll \in 0..2 :
       TrackRead(h, found, storeOk, shouldAdvance, roll)
  \/ \E h \in 1..2, storeOk \in BOOLEAN : TrackUpdate(h, storeOk)
  \/ \E h \in 1..2 : TrackDone(h)

SpecTrack == InitTrack /\ [][NextTrack]_vars

\* ------------------------------------------------------------------------
\* PUT /:id/rating: two requests side by side, each handler serving one
\* ------------------------------------------------------------------------
InitRate ==
  /\ catalog \in ProductCatalogs
  /\ configured = FALSE
  /\ HandlerIdle
  /\ call = NoCall
  /\ ratings = NoRatings
  /\ order = NoOrder
  /\ handlers = [h \in 1..2 |-> [pc |-> "idle", product |-> <<>>, rating |-> JsNull, status |-> 0]]

\* lines 642-653 up to the await of findUnique: the answer of the read is the row
\* the rest of the handler computes with
RateRead(h, idParam, rating, storeOk) ==
  /\ handlers[h].pc = "idle"
  /\ LET id == JsNumber(JsStr(idParam))
         answer(status) == [pc |-> "done", product |-> <<>>, rating |-> rating, status |-> status]
     IN handlers' = [handlers EXCEPT ![h] =
          IF id.t = "nan" \/ rating.t # "num" THEN answer(400)
          ELSE IF ~storeOk THEN answer(500)
          ELSE IF findUnique(catalog, id.n) = <<>> THEN answer(404)
          ELSE [pc |-> "update", product |-> findUnique(catalog, id.n), rating |-> rating,
                status |-> 0]]
  /\ UNCHANGED <<catalog, configured, ratings, order, call, handler>>

\* lines 656-669: the new count and average are computed from the row read, and
\* prisma.product.update stores them
RateUpdate(h, storeOk) ==
  /\ handlers[h].pc = "update"
  /\ LET product == handlers[h].product[1]
         data == NewAverage(product, handlers[h].rating.n)
     IN IF ~storeOk
        THEN /\ handlers' = [handlers EXCEPT ![h].pc = "done", ![h].status = 500]
             /\ UNCHANGED <<catalog, ratings>>
        ELSE /\ catalog' = [i \in 1..Len(catalog) |->
                              IF catalog[i].id = product.id
                              THEN [catalog[i] EXCEPT !.rating = data.rating,
                                                      !.numReviews = data.numReviews]
                              ELSE catalog[i]]
             /\ ratings' = [ratings EXCEPT !.stored = Append(@, <<product.id, handlers[h].rating.n>>)]
             /\ handlers' = [handlers EXCEPT ![h].pc = "done", ![h].status = 200]
  /\ UNCHANGED <<configured, order, call, handler>>

NextRate ==
  \/ \E h \in 1..2, idParam \in SimilarParams(catalog), rating \in RatingBodies, storeOk \in BOOLEAN :
       RateRead(h, idParam, rating, storeOk)
  \/ \E h \in 1..2, storeOk \in BOOLEAN : RateUpdate(h, storeOk)

SpecRate == InitRate /\ [][NextRate]_vars

\* ------------------------------------------------------------------------
\* withRetry(request, { retries, delay }) of the API client
\* ------------------------------------------------------------------------
MaxRetries == 2

\* error?.response?.status of the errors request() rejects with; 0 stands for an
\* error without response or status, which is as falsy as a status of 0
ErrorStatuses == {0, 399, 400, 404, 499, 500}

\* mutant: every error is retried
Retryable_Always(status) == TRUE

\* lines 16-19: an error with a status in 400..499 is rethrown at once
Retryable(status) == ~(status # 0 /\ status >= 400 /\ status < 500)

\* the call has entered the loop; log holds what each call of request() settled
\* with, slept the timeouts awaited
InitRetry ==
  /\ catalog = <<>>
  /\ configured = FALSE
  /\ HandlerIdle
  /\ ratings = NoRatings
  /\ order = NoOrder
  /\ handlers = <<>>
  /\ \E retries \in 0..MaxRetries :
       call = [fn |-> "withRetry", pc |-> "request", retries |-> retries, delay |-> 400,
               attempt |-> 0, lastError |-> <<>>, log |-> <<>>, slept |-> <<>>,
               settled |-> <<>>]

\* lines 13-21: request() is awaited; ok tells whether it resolved (with value)
\* or rejected (with an error of that status, marked by the attempt it is from)
RetryAttempt(ok, value, status) ==
  /\ call.fn = "withRetry"
  /\ call.pc = "request"
  /\ call.attempt <= call.retries
  /\ LET error == [kind |-> "error", status |-> status, at |-> call.attempt]
         resolved == [kind |-> "value", value |-> value]
     IN call' =
          IF ok
          THEN [call EXCEPT !.log = Append(@, resolved), !.pc = "returned",
                            !.settled = <<resolved>>]
          ELSE IF ~Retryable(status)
          THEN [call EXCEPT !.log = Append(@, error), !.pc = "thrown", !.settled = <<error>>]
          ELSE IF call.attempt = call.retries
          THEN [call EXCEPT !.log = Append(@, error), !.lastError = <<error>>,
                            !.pc = "thrown", !.settled = <<error>>]
          ELSE [call EXCEPT !.log = Append(@, error), !.lastError = <<error>>, !.pc = "wait"]
  /\ UNCHANGED <<catalog, configured, ratings, order, handlers, handler>>

\* lines 22 and 12: the timeout of delay * (attempt + 1) ends, attempt += 1
RetryWait ==
  /\ call.fn = "withRetry"
  /\ call.pc = "wait"
  /\ call' = [call EXCEPT !.slept = Append(@, call.delay * (call.attempt + 1)),
                          !.attempt = @ + 1, !.pc = "request"]
  /\ UNCHANGED <<catalog, configured, ratings, order, handlers, handler>>

NextRetry ==
  \/ \E ok \in BOOLEAN, value \in 1..2, status \in ErrorStatuses :
       /\ ok => status = 0
       /\ ~ok => value = 1
       /\ RetryAttempt(ok, value, status)
  \/ RetryWait

SpecRetry == InitRetry /\ [][NextRetry]_vars

\* ------------------------------------------------------------------------
\* Properties
\* ------------------------------------------------------------------------
ListIds(list) == {list[i].id : i \in 1..Len(list)}

LocalTiers == {"scored", "backstop", "unfiltered", "self"}

Answered(r) == pc = "done" /\ route = r /\ response.status = 200

\* the index answer names the row id by a value that is not one of the excluded
\* base-identifier strings (a numeric metadata id, or the numeric id of a row
\* that is indexed under another pineconeId)
NamedAround(id) ==
  \E i \in 1..Len(result) :
    LET v == getVectorProductId(result[i])
    IN /\ Truthy(v)
       /\ v \notin {JsStr(baseIds[k]) : k \in 1..Len(baseIds)}
       /\ toIdString(v) = NumToStr(id)

\* every row of the store is an input product of the request
OnlyInputsInStore == \A i \in 1..Len(catalog) : catalog[i].id \in ListIds(docs)

\* C1 (as stated): the list answered to a single-product request never contains
\* an entry whose identifier is the identifier of the requested product.
C1_NeverSelf ==
  Answered("similar") => docs[1].id \notin ListIds(response.list)

\* C1 (amended): the list answered to a single-product request contains the
\* requested product only when the store holds no other row and the backstop
\* without exclusion (or the last resort) answered the product itself, or when
\* the vector tier answered and the index named the product by a value other
\* than its excluded base-identifier string.
C1_SelfOnlyWhenForced ==
  (Answered("similar") /\ docs[1].id \in ListIds(response.list))
    => \/ response.tier \in {"unfiltered", "self"} /\ OnlyInputsInStore
       \/ response.tier = "vector" /\ NamedAround(docs[1].id)

C1_Witness ==
  /\ Answered("similar")
  /\ response.tier = "scored"
  /\ Len(catalog) > SIMILAR_LIMIT
  /\ docs[1].id \notin ListIds(response.list)

\* C2 (as stated): the list answered to a multi-product request contains no
\* entry whose identifier is the identifier of an input product.
C2_NeverInputs ==
  Answered("group") => ListIds(docs) \cap ListIds(response.list) = {}

\* C2 (amended): the list answered to a multi-product request contains an input
\* product only when every row of the store is an input product and the
\* backstop without exclusion (or the last resort) answered the inputs, or when
\* the vector tier answered and the index named that product by a value other
\* than the excluded base-identifier strings.
C2_InputsOnlyWhenForced ==
  Answered("group") =>
    \A id \in ListIds(docs) \cap ListIds(response.list) :
      \/ response.tier \in {"unfiltered", "self"} /\ OnlyInputsInStore
      \/ response.tier = "vector" /\ NamedAround(id)

C2_Witness ==
  /\ Answered("group")
  /\ Len(docs) = 2
  /\ response.tier = "scored"
  /\ response.list # <<>>
  /\ ListIds(docs) \cap ListIds(response.list) = {}

IndexCalls == calls.queryById + calls.ensureSynced + calls.fetchVectors + calls.queryByVector

\* every index-side call of the request threw, the store did not
C3_Degraded ==
  /\ pc = "done"
  /\ route = "similar"
  /\ configured
  /\ docs # <<>>
  /\ ~calls.storeThrew
  /\ IndexCalls > 0
  /\ calls.threw = IndexCalls

\* C3: with the index configured and every call to it throwing, a working store
\* and an existing product, the single-product request answers a non-empty list
\* from the local fallback.
C3_DegradedStillAnswers ==
  C3_Degraded => /\ response.status = 200
                 /\ response.list # <<>>
                 /\ response.tier \in LocalTiers

\* the degraded request on a store that holds the product alone
C3_Witness ==
  /\ C3_Degraded
  /\ Len(catalog) = 1
  /\ response.list = <<normalizeProduct(docs[1])>>

\* an index-side call threw during a request whose store calls all worked
C4_SomeThrew ==
  /\ pc = "done"
  /\ docs # <<>>
  /\ ~calls.storeThrew
  /\ calls.threw > 0

\* C4 (as stated): when an index-side call throws, the request is answered from
\* the local fallback and not with a server error.
C4_ThrowMeansFallback ==
  C4_SomeThrew => response.status = 200 /\ response.tier \in LocalTiers

\* C4 (amended): when an index-side call throws, the request is not answered
\* with a server error; it is answered from the local fallback when the last
\* index-side call of the request threw, while a throw that is followed by the
\* re-sync and the single retry may still be answered from the vector tier.
C4_ThrowNeverPropagates ==
  C4_SomeThrew => /\ response.status = 200
                  /\ calls.lastThrew => response.tier \in LocalTiers

C4_Witness ==
  /\ C4_SomeThrew
  /\ calls.lastThrew
  /\ route = "group"
  /\ calls.queryByVector = 1
  /\ response.tier = "scored"

\* C5: one single-product request makes at most 2 queryById calls and 1
\* ensureSynced call; one multi-product request over n products makes at most
\* 2 fetchVectors calls, n ensureSynced calls and 1 queryByVector call.
C5_BoundedRetries ==
  /\ route = "similar" => /\ calls.queryById <= 2
                          /\ calls.ensureSynced <= 1
                          /\ calls.fetchVectors = 0
                          /\ calls.queryByVector = 0
  /\ route = "group" => /\ calls.fetchVectors <= 2
                        /\ calls.ensureSynced <= Len(docs)
                        /\ calls.queryByVector <= 1
                        /\ calls.queryById = 0

C5_Witness ==
  /\ pc = "done"
  /\ route = "group"
  /\ Len(docs) = 2
  /\ calls.fetchVectors = 2
  /\ calls.ensureSynced = 2
  /\ calls.queryByVector = 1
  /\ calls.threw = 4

\* the exclusion set names the row, as the store query reads it
Excluded(row, excludeIds) ==
  \E k \in 1..Len(excludeIds) : JsNumber(excludeIds[k]) = JsNum(row.id)

\* C6: the pool returned by buildCandidatePool contains no entry whose
\* identifier is in the exclusion set, with or without the supplementary query.
C6_PoolExcludes ==
  call.fn = "buildCandidatePool" =>
    \A i \in 1..Len(call.out) : ~Excluded(call.out[i], call.excludeIds)

\* a thin filtered result widened by the supplementary query, with excluded rows
\* of both kinds in the store
C6_Witness ==
  /\ call.fn = "buildCandidatePool"
  /\ call.queries = 2
  /\ Len(call.excludeIds) = 2
  /\ \E i \in 1..Len(catalog) : Excluded(catalog[i], call.excludeIds) /\ catalog[i].category = "A"
  /\ \E i \in 1..Len(call.out) : call.out[i].category = "A"
  /\ \E i \in 1..Len(call.out) : call.out[i].category = "B"

\* C7: the pool returned by buildCandidatePool has at most FALLBACK_POOL_LIMIT
\* entries, also when a thin filtered result is merged with the supplementary
\* query.
C7_PoolWithinLimit ==
  call.fn = "buildCandidatePool" => Len(call.out) <= FALLBACK_POOL_LIMIT

\* C8: fetchBackupProducts with limit >= 1 on a non-empty store returns a
\* non-empty list: only rows outside the exclusion when such rows exist (one
\* query), otherwise the top of the same ranking over the whole store.
C8_BackupNonEmpty ==
  (call.fn = "fetchBackupProducts" /\ catalog # <<>>) =>
    /\ call.out # <<>>
    /\ Len(call.out) <= call.limit
    /\ \A i \in 1..Len(call.out) : \A j \in (i + 1)..Len(call.out) :
         ~RankBefore(call.out[j], call.out[i])
    /\ IF \E i \in 1..Len(catalog) : ~Excluded(catalog[i], call.excludeIds)
       THEN /\ call.queries = 1
            /\ \A i \in 1..Len(call.out) : ~Excluded(call.out[i], call.excludeIds)
       ELSE /\ call.queries = 2
            /\ Len(call.out) = Min2(call.limit, Len(catalog))
            /\ \A i \in 1..Len(catalog) :
                 \/ \E k \in 1..Len(call.out) : call.out[k].id = catalog[i].id
                 \/ \A k \in 1..Len(call.out) : ~RankBefore(catalog[i], call.out[k])

\* the exclusion covers the whole store and the second query answers
C8_Witness ==
  /\ call.fn = "fetchBackupProducts"
  /\ Len(catalog) > 1
  /\ \A i \in 1..Len(catalog) : Excluded(catalog[i], call.excludeIds)
  /\ call.queries = 2
  /\ call.out # <<>>

\* C9: a single-product answer has at most SIMILAR_LIMIT entries and a
\* multi-product answer at most GROUP_LIMIT entries, whichever tier produced it.
C9_AtMostLimit ==
  /\ Answered("similar") => Len(response.list) <= SIMILAR_LIMIT
  /\ Answered("group") => Len(response.list) <= GROUP_LIMIT

\* the index answered more usable neighbours than the limit
C9_Witness ==
  /\ Answered("group")
  /\ response.tier = "vector"
  /\ Len(result) > GROUP_LIMIT
  /\ Len(response.list) = GROUP_LIMIT

\* C10: an answered list never holds two entries with the same identifier,
\* also when the index answers the same identifier in several matches.
C10_NoDuplicates ==
  (pc = "done" /\ response.status = 200) =>
    \A i \in 1..Len(response.list) : \A j \in (i + 1)..Len(response.list) :
      response.list[i].id # response.list[j].id

\* two matches of the index answer name the same row, which is answered once
C10_Witness ==
  /\ pc = "done"
  /\ response.status = 200
  /\ response.tier = "vector"
  /\ \E i \in 1..Len(result) : \E j \in (i + 1)..Len(result) :
       /\ toIdString(getVectorProductId(result[i])) = toIdString(getVectorProductId(result[j]))
       /\ \E k \in 1..Len(response.list) :
            NumToStr(response.list[k].id) = toIdString(getVectorProductId(result[i]))

\* ------------------------------------------------------------------------
\* C11: a catalog-store call that fails while a recommendation request is
\* served ends the request there with status 500: once a store call has
\* thrown the handler has answered, so the call is neither repeated nor
\* followed by another tier; this covers the load of the vector tier and the
\* backfill update of the synchronization.
\* ------------------------------------------------------------------------
C11_StoreFailureIs500 ==
  (calls.storeThrew \/ calls.updateThrew)
    => /\ pc = "done"
       /\ response.status = 500
       /\ response.list = <<>>

\* the store fails when the vector tier loads the neighbours the index named
C11_Witness ==
  /\ pc = "done"
  /\ route = "similar"
  /\ calls.storeThrew
  /\ calls.queryById > 0
  /\ result # <<>>
  /\ calls.store = 2
  /\ response.status = 500

\* ------------------------------------------------------------------------
\* C12: a recommendation request with invalid input (a non-numeric id on
\* /:id/similar; on /recommendations an ids value that is not an array, is
\* empty, or holds non-numeric identifiers only) is answered with status 400
\* and no catalog-store or vector-index call has been made by then.
\* ------------------------------------------------------------------------
InvalidParam(idParam) == JsNumber(JsStr(idParam)).t = "nan"

InvalidBody(body) ==
  \/ ~body.isArray
  \/ body.ids = <<>>
  \/ toNumericIds([i \in 1..Len(body.ids) |-> JsStr(body.ids[i])]) = {}

RejectedFirst == response'.status = 400 /\ calls' = NoCalls

C12_InvalidRejectedFirst ==
  [][/\ \A idParam \in SimilarParams(catalog), storeOk \in BOOLEAN :
          (InvalidParam(idParam) /\ ReqSimilar(idParam, storeOk)) => RejectedFirst
     /\ \A body \in GroupBodies(catalog), storeOk \in BOOLEAN :
          (InvalidBody(body) /\ ReqGroup(body, storeOk)) => RejectedFirst]_vars

\* ------------------------------------------------------------------------
\* C13: on the catalog {1: (A, X, 10, 'Widget Pro', 'best widget'),
\* 2: (A, X, 12, 'Widget Max', 'great widget'), 3: (B, Y, 500, 'Gadget',
\* 'unrelated device')}, in either store order, the local ranking for entry 1
\* with limit 2 scores entry 2 strictly above entry 3 and returns exactly
\* entry 2 followed by entry 3.
\* ------------------------------------------------------------------------
RankedForWidget1 ==
  /\ call.fn = "fallbackSimilarProducts"
  /\ call.base = WidgetCatalog[1]
  /\ call.limit = 2

C13_WidgetRanking ==
  RankedForWidget1 =>
    /\ call.out = <<normalizeProduct(WidgetCatalog[2]), normalizeProduct(WidgetCatalog[3])>>
    /\ ScoreGreater(computeSimilarityScore(WidgetCatalog[1], WidgetCatalog[2]),
                    computeSimilarityScore(WidgetCatalog[1], WidgetCatalog[3]))

\* the ranking ran on the store that lists entry 3 before entry 2
C13_Witness ==
  /\ RankedForWidget1
  /\ catalog = WidgetCatalogReversed
  /\ Len(call.out) = 2
  /\ call.out[1].id = 2

\* ------------------------------------------------------------------------
\* C14: buildCandidatePool issues the supplementary query if and only if a
\* category filter was given and the filtered query returned fewer than 5
\* entries; the pool is then the filtered matches followed by the entries that
\* are neither excluded nor already fetched; otherwise the pool is the result
\* of the single filtered query.
\* ------------------------------------------------------------------------
FilterGiven == call.filter.kind = "in" \/ (call.filter.kind = "eq" /\ call.filter.vals # {""})

\* what the filtered query answers: rows in store order that are not excluded
\* and match the filter, at most FALLBACK_POOL_LIMIT of them
FilteredRows ==
  Take(SelectSeq(catalog, LAMBDA r :
         /\ ~Excluded(r, call.excludeIds)
         /\ FilterGiven => r.category \in call.filter.vals),
       FALLBACK_POOL_LIMIT)

\* rows in store order that are neither excluded nor among the filtered matches
OtherRows ==
  SelectSeq(catalog, LAMBDA r :
    /\ ~Excluded(r, call.excludeIds)
    /\ \A i \in 1..Len(FilteredRows) : FilteredRows[i].id # r.id)

Supplemented == FilterGiven /\ Len(FilteredRows) < THIN_POOL

\* C14 (as stated): the supplemented pool holds every such other entry.
C14_SupplementIffThin ==
  call.fn = "buildCandidatePool" =>
    /\ call.queries = IF Supplemented THEN 2 ELSE 1
    /\ call.out = IF Supplemented THEN FilteredRows \o OtherRows ELSE FilteredRows

\* C14 (amended): the supplementary query is capped on its own, so the
\* supplemented pool holds the filtered matches followed by the first
\* FALLBACK_POOL_LIMIT of the other entries in store order.
C14_SupplementIffThinCapped ==
  call.fn = "buildCandidatePool" =>
    /\ call.queries = IF Supplemented THEN 2 ELSE 1
    /\ call.out = IF Supplemented
                  THEN FilteredRows \o Take(OtherRows, FALLBACK_POOL_LIMIT)
                  ELSE FilteredRows

\* entry 1 excluded, one other 'A' entry and three 'B' entries in the store
C14_Witness ==
  /\ call.fn = "buildCandidatePool"
  /\ call.excludeIds = <<JsStr(NumToStr(1))>>
  /\ call.filter = CategoryIs("A")
  /\ call.queries = 2
  /\ Len(call.out) = 4
  /\ call.out[1].category = "A"
  /\ \A i \in 2..4 : call.out[i].category = "B"

\* ------------------------------------------------------------------------
\* C15: computeSimilarityScore is symmetric: score(A, B) = score(B, A), and so
\* is each term (category equality, brand equality, name and description
\* Jaccard similarity, price affinity).
\* ------------------------------------------------------------------------
SameRatio(a, b) == a.num * b.den = b.num * a.den

ExactTerm(a, b, field) == a[field] # "" /\ b[field] # "" /\ a[field] = b[field]

TextTerm(a, b, field) == jaccardSimilarity(tokenize(a[field]), tokenize(b[field]))

C15_ScoreSymmetric ==
  call.fn = "computeSimilarityScore" =>
    /\ SameRatio(call.out, computeSimilarityScore(call.candidate, call.base))
    /\ ExactTerm(call.base, call.candidate, "category")
         = ExactTerm(call.candidate, call.base, "category")
    /\ ExactTerm(call.base, call.candidate, "brand")
         = ExactTerm(call.candidate, call.base, "brand")
    /\ SameRatio(TextTerm(call.base, call.candidate, "name"),
                 TextTerm(call.candidate, call.base, "name"))
    /\ SameRatio(TextTerm(call.base, call.candidate, "description"),
                 TextTerm(call.candidate, call.base, "description"))
    /\ SameRatio(priceAffinity(call.base, call.candidate),
                 priceAffinity(call.candidate, call.base))

\* two different entries that share a name token and differ in price
C15_Witness ==
  /\ call.fn = "computeSimilarityScore"
  /\ call.base.price = JsNum(10)
  /\ call.candidate.price = JsNum(12)
  /\ call.base.name = Txt_WidgetPro
  /\ call.candidate.name = Txt_WidgetMax
  /\ TextTerm(call.base, call.candidate, "name") = [num |-> 1, den |-> 3]
  /\ priceAffinity(call.base, call.candidate) = [num |-> 10, den |-> 12]

\* ------------------------------------------------------------------------
\* C16: the score of an entry against itself.
\* ------------------------------------------------------------------------
\* the weights of lines 87-95, every term at its maximum
MAX_SCORE == 3 + 2 + 3 + 1 + 2

SelfScored == call.fn = "computeSimilarityScore" /\ call.base = call.candidate

AllNonEmpty(a) ==
  /\ a.category # ""
  /\ a.brand # ""
  /\ a.name # NoStr
  /\ a.description # NoStr
  /\ a.price.t # "null"

\* C16 (as stated): for every entry A whose category, brand, name, description
\* and price are all non-empty, computeSimilarityScore(A, A) equals 11.
C16_SelfScoreIs11 ==
  (SelfScored /\ AllNonEmpty(call.base)) => call.out.num = MAX_SCORE * call.out.den

\* C16 (amended): for every entry A whose category and brand are non-empty,
\* whose name and description each hold at least one alphanumeric token and
\* whose price is a number, computeSimilarityScore(A, A) equals 11; no pair of
\* entries scores more than 11.
C16_SelfScoreIs11WithTokens ==
  /\ (/\ SelfScored
      /\ AllNonEmpty(call.base)
      /\ tokenize(call.base.name) # <<>>
      /\ tokenize(call.base.description) # <<>>
      /\ call.base.price.t = "num")
       => call.out.num = MAX_SCORE * call.out.den
  /\ call.fn = "computeSimilarityScore" => call.out.num <= MAX_SCORE * call.out.den

\* an entry with every field set and the price 0 scored against itself
C16_Witness ==
  /\ SelfScored
  /\ AllNonEmpty(call.base)
  /\ call.base.name = Txt_WidgetPro
  /\ call.base.description = Txt_BestWidget
  /\ call.base.price = JsNum(0)
  /\ call.out.num = MAX_SCORE * call.out.den

\* the catalog holds no product whose id is the number the path value converts to
Absent(idParam) ==
  \A i \in 1..Len(catalog) : JsNumber(JsStr(idParam)) # JsNum(catalog[i].id)

\* C17: GET /:id answers 404 with the text 'Product not found' whenever the
\* catalog holds no product for the requested id and the lookup answers,
\* whatever the path value is
C17_MissingIs404 ==
  [][\A idParam \in SimilarParams(catalog) :
       (Absent(idParam) /\ ReqProduct(idParam, TRUE))
         => (response'.status = 404 /\ response'.body = "Product not found")]_vars

\* the ratings stored so far for the product id, in submission order
StoredFor(id) == SelectSeq(ratings.stored, LAMBDA e : e[1] = id)

RECURSIVE SumSubmitted(_)
SumSubmitted(stored) ==
  IF stored = <<>> THEN 0 ELSE stored[1][2] + SumSubmitted(Tail(stored))

\* the row as the store held it before any submission
InitialRow(row) == MkRow(row.id, row.category, "none")

\* C18: after any sequence of k rating submissions executed one after the other
\* a product's numReviews has grown by exactly k and rating * numReviews equals
\* the initial a * n plus the sum of the submitted ratings (each submission
\* stores numReviews n + 1 and rating (a * n + r) / (n + 1)), in exact arithmetic
C18_RunningAverage ==
  \A i \in 1..Len(catalog) :
    LET row == catalog[i]
        first == InitialRow(row)
        sub == StoredFor(row.id)
    IN /\ row.numReviews = first.numReviews + Len(sub)
       /\ row.rating.num * row.numReviews * first.rating.den
            = (first.rating.num * first.numReviews + SumSubmitted(sub) * first.rating.den)
                * row.rating.den

\* two submissions of different ratings were stored for one product, whose
\* average is no whole number
C18_Witness ==
  /\ pc = "done"
  /\ route = "rating"
  /\ response.status = 200
  /\ \E i \in 1..Len(catalog) :
       LET sub == StoredFor(catalog[i].id)
       IN /\ Len(sub) >= 2
          /\ \E j, k \in 1..Len(sub) : sub[j][2] # sub[k][2]
          /\ catalog[i].rating.den > 1

\* the answer of queryById leaves no neighbour once the base product's own
\* identifier and duplicates are removed (usableOnly), or holds no match at all
FirstQueryFailed(out, usableOnly) ==
  \/ out.kind # "ok"
  \/ out.matches = <<>>
  \/ usableOnly /\ OrderedIds(out.matches, 1, {JsStr(baseIds[1])}, <<>>, SIMILAR_LIMIT) = <<>>

\* a step of the single-product vector tier obeys the re-sync and retry rule:
\* a failed first query is followed by the re-sync; the re-sync is one call of
\* ensureSynced, followed by the retry unless it threw; the retry is the second
\* and last queryById; a throw of either leads to the fallback with no
\* candidate; the fallback is entered with as many retries as re-syncs that
\* returned
RetryRule(usableOnly) ==
  /\ \A out \in QueryOutcomes(catalog, SIMILAR_LIMIT + EXTRA_NEIGHBOURS) :
       (SimQuery1(out) /\ FirstQueryFailed(out, usableOnly)) => pc' = "sim_sync"
  /\ pc = "sim_sync" /\ pc' # pc =>
       /\ calls'.ensureSynced = 1
       /\ calls'.queryById = 1
       /\ pc' = IF calls'.lastThrew THEN "sim_fallback" ELSE "sim_query2"
  /\ pc = "sim_query2" /\ pc' # pc =>
       /\ calls'.ensureSynced = 1
       /\ calls'.queryById = 2
       /\ pc' = IF calls'.lastThrew THEN "sim_fallback" ELSE "sim_load"
  /\ pc \in {"sim_sync", "sim_query2"} /\ pc' = "sim_fallback" => result' = <<>>
  /\ pc = "sim_load" /\ pc' = "sim_fallback" => calls'.queryById = 1 + calls'.ensureSynced

\* C19: in a single-product recommendation, whenever the first queryById throws
\* or returns no usable match (no neighbour remains after removing the base
\* product's own identifier and duplicates), ensureSynced is called for the
\* product and queryById is called exactly once more before the local fallback
\* is used; if the sync or the retry throws the vector tier yields no candidate
C19_ResyncOnNoUsableMatch == [][RetryRule(TRUE)]_vars

\* C19, amended: the re-sync and the single retry follow a first queryById that
\* throws or returns no match at all
C19_ResyncOnNoMatch == [][RetryRule(FALSE)]_vars

\* the first query failed, the product was re-synced, the query was retried
\* once, and the local fallback is about to run
C19_Witness ==
  /\ pc = "sim_fallback"
  /\ calls.ensureSynced = 1
  /\ calls.queryById = 2

FallbackSteps == {"sim_fallback", "grp_fallback"}

\* the catalog entries the vector tier returns from the index answer in hand
VectorEntries ==
  LET limit == IF route = "similar" THEN SIMILAR_LIMIT ELSE GROUP_LIMIT
      exclude == {JsStr(baseIds[i]) : i \in 1..Len(baseIds)}
  IN loadNormalizedProductsByIds(catalog, OrderedIds(result, 1, exclude, <<>>, limit)).list

\* a step of a recommendation request keeps the tiers apart: entries returned by
\* the vector tier are the whole answer and no further store query is made; the
\* fallback is entered only with zero entries from the vector tier, and is
\* entered whenever the tier returned zero entries; only the fallback answers a
\* locally built list, and nothing runs after it
TierStep ==
  /\ pc \in {"sim_load", "grp_load"} /\ pc' # pc =>
       IF VectorEntries # <<>>
       THEN /\ pc' = "done"
            /\ calls'.store = calls.store + 1
            /\ \/ response'.status = 500 /\ calls'.storeThrew
               \/ /\ response'.status = 200
                  /\ response'.tier = "vector"
                  /\ response'.list = VectorEntries
       ELSE \/ pc' \in FallbackSteps
            \/ pc' = "done" /\ response'.status = 500 /\ calls'.storeThrew
  /\ pc \notin FallbackSteps /\ pc' \in FallbackSteps =>
       /\ VectorEntries = <<>> \/ calls'.lastThrew
       /\ result' = <<>>
  /\ pc \in FallbackSteps /\ pc' # pc =>
       /\ pc' = "done"
       /\ response'.status = 200 => response'.tier \in LocalTiers
  /\ pc \notin FallbackSteps /\ pc' = "done" /\ response'.status = 200 =>
       response'.tier \notin LocalTiers

\* C20: the tiers run in a fixed order and are never blended: the local
\* fallback, with its pool and backstop queries, runs if and only if the vector
\* tier returned zero catalog entries, and when the vector tier returns at
\* least one entry the answer is exactly that list, even when it is shorter
\* than the limit
C20_TiersNeverBlended == [][TierStep]_vars

\* the vector tier answered fewer entries than the limit while the store holds
\* further products the fallback could have added
C20_Witness ==
  /\ Answered("similar")
  /\ response.tier = "vector"
  /\ Len(response.list) = 1
  /\ Len(catalog) > 2
  /\ calls.store = 2

\* C21: the statusIndex stored for an order only moves forward: across any
\* sequence and any interleaving of track requests for the order a step never
\* lowers the stored statusIndex, and the index never exceeds that of the last
\* status of ORDER_STATUS_FLOW
C21_IndexOnlyForward ==
  [][/\ order'.statusIndex >= order.statusIndex
     /\ order'.statusIndex <= Len(ORDER_STATUS_FLOW) - 1]_vars

\* the codes of the stored status rows, as a track request reads them
StoredCodes ==
  LET history == ByEnteredAt(order.statusHistory)
  IN [i \in 1..Len(history) |-> history[i].code]

\* C22: for an order created by checkout, after any sequence and any
\* interleaving of track requests the stored status history holds exactly the
\* codes ORDER_STATUS_FLOW[0..statusIndex], each once and in flow order
C22_HistoryIsFlowPrefix ==
  order.byCheckout => StoredCodes = SubSeq(ORDER_STATUS_FLOW, 1, order.statusIndex + 1)

\* the base identifiers whose vector the first fetchVectors did not answer
FirstMissing == MissingIds(baseIds, vectorMap)

\* a step of the multi-product vector tier obeys the re-sync rule: the first
\* fetch is followed by the re-sync loop iff a vector is missing; each turn of
\* the loop is one ensureSynced call for a product whose vector is missing, and
\* the loop goes on to the next missing product whether or not the call threw;
\* after the last turn every missing product was synced once and the fetch is
\* repeated, once; the centroid query follows the last fetch iff it answered
\* at least one input vector
GroupSyncRule ==
  /\ \A out \in FetchOutcomes(baseIds) :
       GrpFetch1(out) =>
         /\ calls'.fetchVectors = 1 /\ calls'.ensureSynced = 0
         /\ pc' = "grp_sync" <=> MissingIds(baseIds, FetchedIds(out)) # <<>>
         /\ pc' # "grp_sync" =>
              (pc' = "grp_query" <=> Vectors(baseIds, FetchedIds(out)) # <<>>)
  /\ pc = "grp_sync" /\ calls' # calls =>
       /\ calls'.ensureSynced = syncIdx
       /\ calls'.fetchVectors = 1
       /\ \A i \in 1..Len(docs) : docs'[i] # docs[i] => baseIds[i] \in Range(FirstMissing)
       /\ pc' = IF syncIdx < Len(FirstMissing) THEN "grp_sync" ELSE "grp_fetch2"
  /\ \A out \in FetchOutcomes(baseIds) :
       GrpFetch2(out) =>
         /\ calls.ensureSynced = Len(FirstMissing)
         /\ calls'.fetchVectors = 2
         /\ pc' = "grp_query" <=> Vectors(baseIds, FetchedIds(out)) # <<>>
  /\ pc = "grp_query" /\ pc' # pc =>
       /\ calls'.queryByVector = 1
       /\ calls'.fetchVectors = IF calls'.ensureSynced > 0 THEN 2 ELSE 1
  /\ calls'.queryByVector # calls.queryByVector => pc \in {"grp_query", "done"}
  /\ calls'.fetchVectors # calls.fetchVectors => pc \in {"grp_fetch1", "grp_fetch2", "done"}

\* C23: in a multi-product recommendation ensureSynced is called only for input
\* products whose vector is missing from the first fetchVectors result, the
\* batch fetch is repeated exactly once iff a vector was missing, a sync failure
\* for one product prevents neither the sync of the others nor the refetch, and
\* the centroid query is issued iff an input vector is available afterwards
C23_GroupResync == [][GroupSyncRule]_vars

\* of two input products one vector was missing; its re-sync threw, the fetch
\* was repeated and the centroid query is about to be issued
C23_Witness ==
  /\ pc = "grp_query"
  /\ Len(docs) = 2
  /\ calls.ensureSynced = 1
  /\ calls.fetchVectors = 2
  /\ calls.threw = 1

\* the pool of the single-product fallback for the requested product
SimilarPool ==
  buildCandidatePool(catalog, <<IdStr(docs[1])>>,
                     IF docs[1].category # "" THEN CategoryIs(docs[1].category)
                     ELSE NoFilter).list

\* the candidates of the pool that go ahead of candidate i: those of higher
\* score, and those of equal score that come earlier in the pool
AheadOf(score, i) ==
  {j \in DOMAIN score : \/ ScoreGreater(score[j], score[i])
                        \/ ~ScoreGreater(score[i], score[j]) /\ j < i}

\* the first limit entries of the pool by non-increasing score, candidates of
\* equal score in pool order
TopOfPool(pool, score, limit) ==
  [k \in 1..Min2(limit, Len(pool)) |->
     normalizeProduct(pool[CHOOSE i \in 1..Len(pool) :
                             Cardinality(AheadOf(score, i)) = k - 1])]

\* the score of every pool entry against the base product
SimilarScores(pool) ==
  [i \in 1..Len(pool) |-> computeSimilarityScore(docs[1], pool[i])]

\* C24: when the local-scoring fallback has a non-empty pool its output is the
\* first limit entries of the pool ordered by non-increasing score against the
\* base product, candidates of equal score keeping their pool order
C24_TopOfPoolByScore ==
  (Answered("similar") /\ response.tier = "scored")
    => response.list = TopOfPool(SimilarPool, SimilarScores(SimilarPool), SIMILAR_LIMIT)

\* the pool holds more candidates than the limit, and two entries of the
\* answer have the same score
C24_Witness ==
  /\ Answered("similar")
  /\ response.tier = "scored"
  /\ Len(SimilarPool) > SIMILAR_LIMIT
  /\ \E k \in 1..(Len(response.list) - 1) :
       LET a == computeSimilarityScore(docs[1], response.list[k])
           b == computeSimilarityScore(docs[1], response.list[k + 1])
       IN ~ScoreGreater(a, b) /\ ~ScoreGreater(b, a)

\* the pool of the multi-product fallback for the input products
GroupPool ==
  LET categories == {docs[i].category : i \in 1..Len(docs)} \ {""}
  IN buildCandidatePool(catalog, Dedup(IdStrs(docs)),
                        IF categories # {} THEN CategoryIn(categories) ELSE NoFilter).list

\* the highest of the candidate's scores against the input products
MaxScore(candidate) ==
  LET scores == {computeSimilarityScore(docs[i], candidate) : i \in 1..Len(docs)}
  IN CHOOSE m \in scores : \A sc \in scores : ~ScoreGreater(sc, m)

GroupScores(pool) == [i \in 1..Len(pool) |-> MaxScore(pool[i])]

\* C25: in the multi-product local fallback each candidate is ranked by the
\* maximum of its scores against the input products, and the output is ordered
\* by non-increasing value of that maximum
C25_RankedByMaxScore ==
  (Answered("group") /\ response.tier = "scored")
    => /\ response.list = TopOfPool(GroupPool, GroupScores(GroupPool), GROUP_LIMIT)
       /\ \A k \in 1..(Len(response.list) - 1) :
            ~ScoreGreater(MaxScore(response.list[k + 1]), MaxScore(response.list[k]))

\* two input products score an answered candidate differently, and the answer
\* holds candidates of different maximum
C25_Witness ==
  /\ Answered("group")
  /\ response.tier = "scored"
  /\ Len(docs) = 2
  /\ \E k \in 1..Len(response.list) :
       ScoreGreater(computeSimilarityScore(docs[1], response.list[k]),
                    computeSimilarityScore(docs[2], response.list[k]))
  /\ \E k \in 1..(Len(response.list) - 1) :
       ScoreGreater(MaxScore(response.list[k]), MaxScore(response.list[k + 1]))

\* the positions of the ranked match list that name the catalog entry id
MatchesOf(id) ==
  {i \in 1..Len(result) : toIdString(getVectorProductId(result[i])) = NumToStr(id)}

\* the position at which the identifier first appears in the match list
FirstMatchOf(id) == CHOOSE i \in MatchesOf(id) : \A j \in MatchesOf(id) : i <= j

SameButPineconeId(before, after) ==
  /\ Len(after) = Len(before)
  /\ \A i \in 1..Len(before) : [after[i] EXCEPT !.pineconeId = before[i].pineconeId] = before[i]

\* C27: a recommendation request writes to the catalog only to backfill a
\* product's external-index identifier, and only in a synchronization whose
\* upsert succeeded: a synchronization that finds the index unconfigured,
\* builds no payload or throws leaves every catalog entry unchanged
C27_OnlyBackfillWrites ==
  [][/\ catalog' # catalog =>
          /\ pc \in {"sim_sync", "grp_sync"}
          /\ SameButPineconeId(catalog, catalog')
     /\ \A out \in SyncOutcomes \ {"ok"}, updateOk \in BOOLEAN :
          (SimSync(out, updateOk) \/ GrpSync(out, updateOk)) => catalog' = catalog]_vars

\* a synchronization of a product without stored identifier threw, and the
\* fallback is about to read the catalog
C27_Witness ==
  /\ pc = "sim_fallback"
  /\ calls.ensureSynced = 1
  /\ calls.lastThrew
  /\ docs[1].pineconeId = NoStr
  /\ \A i \in 1..Len(catalog) : catalog[i].pineconeId = NoStr

\* both requests were for the product of the row, and both were answered 200
BothRated(row) ==
  \A h \in 1..2 :
    /\ handlers[h].pc = "done"
    /\ handlers[h].status = 200
    /\ handlers[h].product[1].id = row.id

\* C28: when two rating requests for the same product run with any interleaving
\* of their read and write steps and both answer 200, the stored numReviews has
\* grown by 2 and the stored average reflects both submitted ratings
C28_NoRatingLost ==
  \A i \in 1..Len(catalog) :
    LET row == catalog[i]
        first == InitialRow(row)
    IN BothRated(row) =>
         /\ row.numReviews = first.numReviews + 2
         /\ row.rating.num * row.numReviews * first.rating.den
              = (first.rating.num * first.numReviews
                   + (handlers[1].rating.n + handlers[2].rating.n) * first.rating.den)
                  * row.rating.den

\* the exclusion set, the category filter and the limit of the local fallback
\* of the request being answered
LocalExcludeIds ==
  IF route = "similar" THEN SimilarExcludeIds(docs[1]) ELSE GroupExcludeIds(docs)

LocalFilter ==
  LET categories == {docs[i].category : i \in 1..Len(docs)} \ {""}
  IN IF categories = {} THEN NoFilter
     ELSE IF route = "similar" THEN CategoryIs(docs[1].category)
     ELSE CategoryIn(categories)

LocalLimit == IF route = "similar" THEN SIMILAR_LIMIT ELSE GROUP_LIMIT

\* the local fallback answered a request whose candidate pool is empty
EmptyPoolAnswered ==
  /\ pc = "done"
  /\ route \in {"similar", "group"}
  /\ response.status = 200
  /\ response.tier \in LocalTiers
  /\ buildCandidatePool(catalog, LocalExcludeIds, LocalFilter).list = <<>>

\* C29: in the local fallback, whenever the candidate pool is empty the
\* exclusion-respecting backstop query is empty too, so the list answered
\* consists only of the input products themselves
C29_EmptyPoolOnlyInputs ==
  EmptyPoolAnswered =>
    /\ findMany(catalog, buildWhereClause(LocalExcludeIds, NoFilter), TRUE, LocalLimit) = <<>>
    /\ response.tier \in {"unfiltered", "self"}
    /\ response.list # <<>>
    /\ ListIds(response.list) \subseteq ListIds(docs)

\* the product requested is the only one of the store and has a category
C29_Witness ==
  /\ EmptyPoolAnswered
  /\ route = "similar"
  /\ docs[1].category # ""
  /\ ListIds(response.list) = {docs[1].id}

\* the call returned or threw
RetrySettled == call.pc \in {"returned", "thrown"}

\* an error whose response status is in 400..499
ClientError(entry) == entry.kind = "error" /\ entry.status \in 400..499

\* C30: withRetry calls request at most retries + 1 times; it returns the value
\* of the first successful attempt without further calls, rethrows at once an
\* error whose response status is in 400..499, and otherwise rethrows the error
\* of the last attempt once all retries + 1 attempts have failed
C30_RetryContract ==
  LET n == Len(call.log)
  IN /\ n <= call.retries + 1
     /\ \A i \in 1..n :
          (call.log[i].kind = "value" \/ ClientError(call.log[i]))
            => /\ i = n
               /\ call.settled = <<call.log[i]>>
               /\ call.pc = IF call.log[i].kind = "value" THEN "returned" ELSE "thrown"
     /\ (n = call.retries + 1 /\ call.log[n].kind = "error")
          => /\ call.pc = "thrown"
             /\ call.settled = <<call.log[n]>>
     /\ RetrySettled
          => \/ call.log[n].kind = "value"
             \/ ClientError(call.log[n])
             \/ n = call.retries + 1
     /\ ~RetrySettled => call.settled = <<>>

\* with retries = 2, two attempts failed with errors that are retried (one
\* without status, one of status 500) and the third one resolved
C30_Witness ==
  /\ call.pc = "returned"
  /\ call.retries = 2
  /\ Len(call.log) = 3
  /\ call.log[1].status = 0
  /\ call.log[2].status = 500
  /\ call.slept = <<400, 800>>

====
